---- MODULE Spec2Model ----
(***************************************************************************)
(* Model of github.com/ing-bank/orchestration-pkg:                         *)
(*   pkg/task          Run, AnyError              (src/pkg/logging/logging.go, *)
(*                                                 lines 188-271)           *)
(*   pkg/orchestration CallServices, CallStagedServices, RunServiceAction, *)
(*                     RollbackErrorReporter, DryRunService                *)
(*                                                 (api_service.go)         *)
(*                     GenerateResponse, GenerateStagedResponse            *)
(*                                                 (payload.go)             *)
(*                     RestApiAsService            (api_rest.go)            *)
(*   the REST example  MyServiceApi, the handler of /api/v1/memory         *)
(*                     (internal/example, cmd/example_as_api)              *)
(* and of single calls of AnyError, GenerateResponse,                      *)
(* GenerateStagedResponse and of the methods of one RestApiAsService       *)
(* service.                                                                *)
(*                                                                         *)
(* Goroutines of one top-level call:                                       *)
(*   - the caller, inside CallServices / CallStagedServices (pc, i);       *)
(*   - per task.Run call and per task: the worker (wpc) and its            *)
(*     sub-worker (sub), joined by the 1-buffered workerChan (chan);       *)
(*   - the detached rollback of CallServices (rb), one per failing batch;  *)
(*   - the detached rollback loop of CallStagedServices (srpc, sj);        *)
(*   - the goroutines of RollbackErrorReporter (pending).                  *)
(* A select with several ready cases takes any of them (Go language        *)
(* specification); a service method returns nil, an error, panics, or      *)
(* never returns.                                                          *)
(***************************************************************************)
EXTENDS Integers, Sequences, FiniteSets

\* ---------------------------------------------------------------- bounds
NStages == 3      \* the longest stage list: len(stages) <= NStages
NServices == 2    \* the longest batch: len(services), len(tasks) <= NServices
MaxStaged == 3    \* services of all stages of a staged call together
MaxStagedRecover == 2  \* the same when the context carries recover
MaxLater == 1     \* services of each stage after the first of a staged call
MaxPlain == 1     \* services of a batch when a hook of opts is nil
MaxStagedPlain == 2  \* services of all stages together when a hook is nil
MaxErrors == 4    \* the longest list given to AnyError on its own
MaxMemoryInMb == 2  \* the largest claim and budget of a service called on its own

Stages == 0 .. (NStages - 1)
Svcs == 1 .. NServices

\* ------------------------------------------------------------ vocabulary
\* ServiceAction (api_service.go:178-185)
SERVICE_CHECK == "CHECK"
SERVICE_RECOVER == "RECOVER"
SERVICE_RUN == "RUN"
SERVICE_ROLLBACK == "ROLLBACK"
ServiceAction == {SERVICE_CHECK, SERVICE_RECOVER, SERVICE_RUN, SERVICE_ROLLBACK}

\* The call sites of RunServiceAction: lines 108, 115, 124, 130 of
\* CallServices and line 154 of CallStagedServices.
Sites == {"CHECK", "RECOVER", "RUN", "ROLLBACK_CS", "ROLLBACK_ST"}

\* The action each call site passes to RunServiceAction.
ActionOf(site) ==
    CASE site = "CHECK" -> SERVICE_CHECK
      [] site = "RECOVER" -> SERVICE_RECOVER
      [] site = "RUN" -> SERVICE_RUN
      [] site = "ROLLBACK_CS" -> SERVICE_ROLLBACK
      [] site = "ROLLBACK_ST" -> SERVICE_ROLLBACK

\* One task.Run call is identified by the stage it runs and its call site.
Keys == Stages \X Sites

\* error values: nil, an error returned by the service, and the two errors
\* task.Run makes itself (logging.go:244, 254)
NilErr == "nil"
SvcErr == "failed"
ErrInternal == "internal server error"
ErrTimeout == "timeout"
Unset == "unset"       \* a slot of taskErrors no worker has written yet
NilAny == "nil any"    \* a nil interface value

\* summaries of CallServices (api_service.go:116, 119, 132)
ErrRecover == "unable to recover from one or more failed pre-run checks"
ErrCheck == "one or more pre-run checks failed"
ErrRun == "one or more runs failed"


VARIABLES
    mode,          \* the call made: "task" task.Run(tasks, ctx), "direct"
                   \* CallServices(ctx, stages[0], opts), "staged" CallStagedServices
    nst,           \* len(stages); 1 in task and direct mode
    size,          \* size[s] = len(stages[s]); in task mode size[0] = len(tasks)
    dryRun,        \* ctx.Value("dryRun") != nil
    recover,       \* ctx.Value("recover") != nil
    skipRollback,  \* opts.SkipRollback
    onActionError, \* opts.OnActionError != nil
    onStageStart,  \* opts.OnStageStart != nil
    ctxDone,       \* ctx.Done() is closed
    pc,            \* where the caller is
    i,             \* loop variable of CallStagedServices (0 in direct mode)
    errs,          \* local errs of the running CallServices; in task mode the
                   \* list task.Run returned
    csRet,         \* what the last CallServices returned: <<errs, err>>
    stRet,         \* what CallStagedServices returned: <<n, errs, err>>
    inst,          \* task.Run call per key: "none", "active", "returned"
    wg,            \* its WaitGroup counter
    wpc,           \* worker goroutine of task i: "none", "select", "done"
    sub,           \* sub-worker of task i: "none", "ready", "running", "ended"
    chan,          \* workerChan of task i: the values sent and not received
    slot,          \* taskErrors[i]
    writes,        \* number of assignments to taskErrors[i]
    out,           \* how tasks[i].Run ended: "none" while it has not
    calls,         \* calls[s][a][n]: invocations of method a on service n of stage s
    inner,         \* the same for the service a DryRunService wraps
    rb,            \* detached rollback of CallServices per stage (line 130)
    srpc,          \* detached rollback loop of CallStagedServices (lines 152-156)
    sj,            \* its loop variable j
    reported,      \* the calls of opts.OnActionError so far: <<stage, action, errs>>
    started,       \* the calls of opts.OnStageStart so far: the stage indices
    reporter,      \* RollbackErrorReporter != nil (api_service.go:78)
    wrapped,       \* the services are MakeDryRun(service) (api_service.go:72-74)
    pending,       \* per action, the arguments of the go statements of line
                   \* 214 whose goroutine has not made its call yet
    rollbackReports, \* per action, the calls of RollbackErrorReporter made:
                   \* <<stage, errs>>
    restAction,    \* proto.Action of the services made by RestApiAsService
    requestName,   \* proto.RequestName, a name being the sequence of its parts
    payload,       \* proto.RequestPayload: <<claim>>
    sameDc,        \* the services of a batch have the same MyServiceApi.Datacenter
    db,            \* fakeDb: the set of the claims stored, one per name
    avail,         \* AvailableMemoryMb
    backup,        \* backup[r][n]: proto.backup of service n of request r: << >>
                   \* for nil, else <<claim>>
    response,      \* response[r][n]: proto.Response
    apiCall,       \* apiCall[k][n]: the call of proto.Api made by the method of
                   \* action k on service n: << >> or [fn, arg, got, err]
    args,          \* the arguments of a call of a function of the package
    result         \* what that call returned: << >> while it has not

ctxVars == <<mode, nst, size, dryRun, recover, skipRollback, onActionError, onStageStart,
             reporter, wrapped>>
callerVars == <<pc, i, errs, csRet, stRet>>
taskVars == <<inst, wg, wpc, sub, chan, slot, writes, out, calls, inner>>
bgVars == <<rb, srpc, sj>>
hookVars == <<reported, started>>
repVars == <<pending, rollbackReports>>
restVars == <<restAction, requestName, payload, sameDc, db, avail, backup, response, apiCall>>
fnVars == <<args, result>>
orchVars == <<ctxVars, ctxDone, callerVars, taskVars, bgVars, hookVars, repVars, restVars>>
vars == <<orchVars, fnVars>>

\* ------------------------------------------------------- pure functions
\* Mutant of AnyError: only the first element is looked at.
AnyErrorFirst(errors) == Len(errors) > 0 /\ errors[1] # NilErr

\* The loop of task.AnyError from element n on (logging.go:265-270): true
\* at the first non-nil element, false when the list is exhausted.
RECURSIVE AnyErrorFrom(_, _)
AnyErrorFrom(errors, n) ==
    IF n > Len(errors) THEN FALSE
    ELSE IF errors[n] # NilErr THEN TRUE
    ELSE AnyErrorFrom(errors, n + 1)

\* task.AnyError (logging.go:264-271).
AnyError(errors) == AnyErrorFrom(errors, 1)

\* What the worker receives from workerChan (logging.go:239-248): the value
\* tasks[count].Run returned, or "internal server error" when the deferred
\* recover() gave a non-nil value.  When recover() gives nil although the
\* method did not return (panic(nil) where the build keeps nil panic values,
\* runtime.Goexit), the test at line 243 sends nothing and the deferred
\* close(workerChan) makes the receive yield nil.
Delivered(o) ==
    CASE o = "nil" -> NilErr
      [] o = "err" -> SvcErr
      [] o = "panic" -> ErrInternal
      [] o = "panicnil" -> NilErr

\* The slot a worker writes: count := i (logging.go:233, 252, 254).
SlotIndex(n) == n

\* make([]error, len(tasks)) holds nil where no worker has written.
SlotValue(v) == IF v = Unset THEN NilErr ELSE v

\* The tasks of the task.Run call k: one per service of the batch.
Tasks(k) == 1 .. size[k[1]]

\* The list task.Run returns (logging.go:230, 260).
TaskErrors(k) == [n \in Tasks(k) |-> SlotValue(slot[k][n])]

\* How a service method ends: it returns nil, returns an error, panics with
\* a value recover() reports, or ends its goroutine with recover() giving nil.
\* Panicking tasks are an input of the task.Run call of task mode only.
Outcomes ==
    IF mode = "task" THEN {"nil", "err", "panic", "panicnil"} ELSE {"nil", "err"}

\* Mutant of WaitDone: task.Run returns without wg.Wait().
WaitSkipped(k) == inst[k] = "active"

\* wg.Wait() (logging.go:259) lets the caller pass once every worker is done.
WaitDone(k) == inst[k] = "active" /\ wg[k] = 0

\* Mutant of FirstRollbackStage: the detached loop starts at the failing
\* stage.
FirstRollbackStageSelf(s) == s

\* Mutants of StagedShouldRollback: the test of opts.SkipRollback is
\* inverted; it is left out.
StagedShouldRollbackInverted == skipRollback
StagedShouldRollbackAlways == TRUE

\* Mutant of StageFailed: CallStagedServices ignores the error of a stage.
StageFailedNever(err) == FALSE

\* if err != nil (api_service.go:149)
StageFailed(err) == err # NilErr

\* Mutant of StagedFailure: the number of stages is returned as the index.
StagedFailureAtLen(k, ret) == <<nst, ret[1], ret[2]>>

\* return i, errs, err (api_service.go:158), ret being what CallServices
\* returned for stage k.
StagedFailure(k, ret) == <<k, ret[1], ret[2]>>

\* return len(stages), nil, nil (api_service.go:162)
StagedSuccess == <<nst, << >>, NilErr>>

\* Mutants of ShouldRecover: RECOVER is run whatever the context carries;
\* RECOVER is never run; the dryRun test of line 114 is dropped.
ShouldRecoverAlways == TRUE
ShouldRecoverNever == FALSE
ShouldRecoverDespiteDryRun == recover

\* Mutant of Reported: the hook is called for CHECK only.
ReportedCheckOnly(log, s, a, e) ==
    IF onActionError /\ a = SERVICE_CHECK THEN Append(log, <<s, a, e>>) ELSE log

\* Mutants of GoReporter: the go statement is made for RUN as well; it is
\* made with the list before task.Run filled it.
GoReporterForRun(p, k, e) ==
    IF ActionOf(k[2]) \in {SERVICE_ROLLBACK, SERVICE_RUN} /\ reporter
    THEN [p EXCEPT ![k] = Append(@, <<k[1], e>>)]
    ELSE p
GoReporterUnfilled(p, k, e) ==
    IF ActionOf(k[2]) = SERVICE_ROLLBACK /\ reporter
    THEN [p EXCEPT ![k] = Append(@, <<k[1], [n \in DOMAIN e |-> Unset]>>)]
    ELSE p

\* if action == SERVICE_ROLLBACK && RollbackErrorReporter != nil { go
\* RollbackErrorReporter(ctx, services, errs) } (api_service.go:212-216), errs
\* being what task.Run returned: the arguments are bound at the go statement.
GoReporter(p, k, e) ==
    IF ActionOf(k[2]) = SERVICE_ROLLBACK /\ reporter
    THEN [p EXCEPT ![k] = Append(@, <<k[1], e>>)]
    ELSE p

\* if opts.OnActionError != nil { opts.OnActionError(ctx, action, services,
\* errs) } (api_service.go:110-112, 126-128), a synchronous call of the caller.
Reported(log, s, a, e) ==
    IF onActionError THEN Append(log, <<s, a, e>>) ELSE log

\* Mutant of StageStarted: the hook is called after the first stage only.
StageStartedLater(log, s) ==
    IF onStageStart /\ s > 0 THEN Append(log, s) ELSE log

\* if opts.OnStageStart != nil { opts.OnStageStart(ctx, stages[i]) }
\* (api_service.go:145-147)
StageStarted(log, s) ==
    IF onStageStart THEN Append(log, s) ELSE log

\* Mutant of ShouldRun: RUN is started whatever the context carries.
ShouldRunAlways == TRUE

\* Mutant of ShouldRollback: the test of opts.SkipRollback is inverted.
ShouldRollbackInverted == skipRollback

\* The decisions of CallServices (api_service.go:114, 123, 129) and of
\* CallStagedServices (api_service.go:151, 153).
ShouldRecover == ~dryRun /\ recover
ShouldRun == ~dryRun
ShouldRollback == ~skipRollback
StagedShouldRollback == ~skipRollback
FirstRollbackStage(s) == s - 1

\* ------------------------------------------------------------------ Init
\* The state before the call, common to the three calls.
InitIdle ==
    /\ ctxDone = FALSE
    /\ pc = "init"
    /\ i = 0
    /\ errs = << >>
    /\ csRet = << >>
    /\ stRet = << >>
    /\ inst = [k \in Keys |-> "none"]
    /\ wg = [k \in Keys |-> 0]
    /\ wpc = [k \in Keys |-> [n \in Svcs |-> "none"]]
    /\ sub = [k \in Keys |-> [n \in Svcs |-> "none"]]
    /\ chan = [k \in Keys |-> [n \in Svcs |-> << >>]]
    /\ slot = [k \in Keys |-> [n \in Svcs |-> Unset]]
    /\ writes = [k \in Keys |-> [n \in Svcs |-> 0]]
    /\ out = [k \in Keys |-> [n \in Svcs |-> "none"]]
    /\ calls = [s \in Stages |-> [a \in ServiceAction |-> [n \in Svcs |-> 0]]]
    /\ inner = [s \in Stages |-> [a \in ServiceAction |-> [n \in Svcs |-> 0]]]
    /\ rb = [s \in Stages |-> "none"]
    /\ srpc = "none"
    /\ sj = 0
    /\ reported = << >>
    /\ started = << >>
    /\ pending = [k \in Keys |-> << >>]
    /\ rollbackReports = [k \in Keys |-> << >>]
    /\ backup = [r \in Stages |-> [n \in Svcs |-> << >>]]
    /\ response = [r \in Stages |-> [n \in Svcs |-> NilAny]]
    /\ apiCall = [k \in Keys |-> [n \in Svcs |-> << >>]]

\* The services are not made by RestApiAsService.
InitNoRest ==
    /\ restAction = "none"
    /\ requestName = << >>
    /\ payload = << >>
    /\ sameDc = FALSE
    /\ db = {}
    /\ avail = 0

\* No function of the package is called on its own.
InitCommon ==
    /\ InitIdle
    /\ InitNoRest
    /\ args = << >>
    /\ result = << >>

\* task.Run(tasks, ctx) on a list of 0 .. NServices tasks.
InitTask ==
    /\ mode = "task"
    /\ nst = 1
    /\ size \in [Stages -> 0 .. NServices]
    /\ \A s \in Stages : s >= nst => size[s] = 0
    /\ dryRun = FALSE
    /\ recover = FALSE
    /\ skipRollback = FALSE
    /\ onActionError = FALSE
    /\ onStageStart = FALSE
    /\ reporter = FALSE
    /\ wrapped = FALSE
    /\ InitCommon

\* CallServices(ctx, services, opts) on a batch of 1 .. NServices services
\* (1 .. MaxPlain when opts.OnActionError or RollbackErrorReporter is nil);
\* opts.OnStageStart is set.
Init ==
    /\ mode = "direct"
    /\ nst = 1
    /\ size \in [Stages -> 0 .. NServices]
    /\ \A s \in Stages : IF s < nst THEN size[s] >= 1 ELSE size[s] = 0
    /\ dryRun \in BOOLEAN
    /\ recover \in BOOLEAN
    /\ skipRollback \in BOOLEAN
    /\ onActionError \in BOOLEAN
    /\ reporter \in BOOLEAN
    /\ (~onActionError \/ ~reporter) => size[0] <= MaxPlain
    /\ onStageStart = TRUE
    /\ wrapped = FALSE
    /\ InitCommon

\* The number of services of stages 0 .. s together.
RECURSIVE Total(_, _)
Total(sz, s) == IF s < 0 THEN 0 ELSE sz[s] + Total(sz, s - 1)

\* CallStagedServices(ctx, stages, opts) on 2 .. NStages batches of
\* 1 .. NServices services (1 .. MaxLater after the first), MaxStaged
\* services in all (MaxStagedRecover with recover); a stage list of one batch
\* behaves as the direct call.  A call with a nil hook in opts or with
\* RollbackErrorReporter set is drawn with MaxPlain services per stage,
\* MaxStagedPlain in all, and without recover.
InitStaged ==
    /\ mode = "staged"
    /\ nst \in 2 .. NStages
    /\ size \in [Stages -> 0 .. NServices]
    /\ \A s \in Stages : IF s < nst THEN size[s] >= 1 ELSE size[s] = 0
    /\ \A s \in Stages : s > 0 => size[s] <= MaxLater
    /\ dryRun \in BOOLEAN
    /\ recover \in BOOLEAN
    /\ Total(size, NStages - 1) <= (IF recover THEN MaxStagedRecover ELSE MaxStaged)
    /\ skipRollback \in BOOLEAN
    /\ onActionError \in BOOLEAN
    /\ onStageStart \in BOOLEAN
    /\ reporter \in BOOLEAN
    /\ (~onActionError \/ ~onStageStart \/ reporter) =>
            /\ ~recover
            /\ \A s \in Stages : size[s] <= MaxPlain
            /\ Total(size, NStages - 1) <= MaxStagedPlain
    /\ wrapped = FALSE
    /\ InitCommon

\* ------------------------------------------------------------- task.Run
\* task.Run up to wg.Wait (logging.go:228-257): the slots are made, and per
\* task a worker with its workerChan and its sub-worker are started.
StartRun(k) ==
    /\ wg' = [wg EXCEPT ![k] = size[k[1]]]
    /\ wpc' = [wpc EXCEPT ![k] = [n \in Svcs |-> IF n \in Tasks(k) THEN "select" ELSE "none"]]
    /\ sub' = [sub EXCEPT ![k] = [n \in Svcs |-> IF n \in Tasks(k) THEN "ready" ELSE "none"]]
    /\ chan' = [chan EXCEPT ![k] = [n \in Svcs |-> << >>]]
    /\ slot' = [slot EXCEPT ![k] = [n \in Svcs |-> Unset]]

NoStart == UNCHANGED <<wg, wpc, sub, chan, slot>>

\* Mutant of Delegated: Run is handed to the wrapped service as well.
DelegatedRun(a) == a \in {SERVICE_CHECK, SERVICE_RUN}

\* The methods of DryRunService that call the method of d.Wrapper
\* (api_service.go:223-236): Check does, Run and Rollback do not, and Recover
\* is that of the embedded Recoverable (api_service.go:98-103).
Delegated(a) == a = SERVICE_CHECK

\* How a method of a DryRunService can end: Check as the Check of the wrapped
\* service, Run and Rollback with nil, and Recover with "recovery not
\* possible", MakeDryRun setting no Recovery (api_service.go:72-74).
DryRunOutcomes(a) ==
    CASE a = SERVICE_CHECK -> Outcomes
      [] a = SERVICE_RECOVER -> {"err"}
      [] a = SERVICE_RUN -> {"nil"}
      [] a = SERVICE_ROLLBACK -> {"nil"}

\* How method a of a service of the batch can end.
MethodOutcomes(a) == IF wrapped THEN DryRunOutcomes(a) ELSE Outcomes

\* The sub-worker calls tasks[count].Run(ctx) (logging.go:247), which is
\* ProtoService.Run dispatching on the action (api_service.go:187-198).
SubInvoke(k, n) ==
    /\ sub[k][n] = "ready"
    /\ sub' = [sub EXCEPT ![k][n] = "running"]
    /\ calls' = [calls EXCEPT ![k[1]][ActionOf(k[2])][n] = @ + 1]
    /\ inner' = IF wrapped /\ Delegated(ActionOf(k[2]))
                THEN [inner EXCEPT ![k[1]][ActionOf(k[2])][n] = @ + 1]
                ELSE inner
    /\ UNCHANGED <<hookVars, fnVars, restVars, repVars, ctxVars, ctxDone, callerVars, bgVars>>
    /\ UNCHANGED <<inst, wg, wpc, chan, slot, writes, out>>

\* The capacity of workerChan: make(chan error, 1) (logging.go:236).
WorkerChanCap == 1

\* Mutant of Sent: the deferred function sends "internal server error" after
\* every task, the result of line 247 being sent as well.
SentBoth(o) == IF o = "panicnil" THEN << >> ELSE <<Delivered(o), ErrInternal>>

\* What the sub-worker sends on workerChan when the method ends as o: the
\* result (logging.go:247), or "internal server error" when recover() gives a
\* non-nil value (logging.go:242-245), the send of line 247 not being reached
\* then; nothing when recover() gives nil although the method did not return.
Sent(o) == IF o = "panicnil" THEN << >> ELSE <<Delivered(o)>>

\* A send of the values vs on a workerChan holding c does not block.
Room(c, vs) == Len(c) + Len(vs) <= WorkerChanCap

\* What a receive yields from a workerChan holding c: its first value, or
\* the zero value nil when it is closed and empty.
Received(c) == IF c # << >> THEN Head(c) ELSE NilErr

\* The method returns or panics; the sub-worker sends the outcome on the
\* 1-buffered workerChan and closes it (logging.go:240-247).
SubReturn(k, n, o) ==
    /\ sub[k][n] = "running"
    /\ o \in MethodOutcomes(ActionOf(k[2]))
    /\ Room(chan[k][n], Sent(o))
    /\ sub' = [sub EXCEPT ![k][n] = "ended"]
    /\ out' = [out EXCEPT ![k][n] = o]
    /\ chan' = [chan EXCEPT ![k][n] = @ \o Sent(o)]
    /\ UNCHANGED <<hookVars, fnVars, restVars, repVars, ctxVars, ctxDone, callerVars, bgVars>>
    /\ UNCHANGED <<inst, wg, wpc, slot, writes, calls, inner>>

\* Mutant of WriteSlot: the worker selects in a loop, so it writes again when
\* the other case becomes ready.
WriteSlotAgain(k, n, v) ==
    /\ slot' = [slot EXCEPT ![k][SlotIndex(n)] = v]
    /\ writes' = [writes EXCEPT ![k][SlotIndex(n)] = @ + 1]
    /\ wpc' = wpc
    /\ wg' = [wg EXCEPT ![k] = IF @ > 0 THEN @ - 1 ELSE @]

\* The worker writes its slot and leaves (wg.Done, logging.go:237).
WriteSlot(k, n, v) ==
    /\ slot' = [slot EXCEPT ![k][SlotIndex(n)] = v]
    /\ writes' = [writes EXCEPT ![k][SlotIndex(n)] = @ + 1]
    /\ wpc' = [wpc EXCEPT ![k][n] = "done"]
    /\ wg' = [wg EXCEPT ![k] = @ - 1]

\* select, case err := <-workerChan (logging.go:251-252): ready when the
\* channel holds a value or the sub-worker has closed it (logging.go:240).
WorkerRecv(k, n) ==
    /\ wpc[k][n] = "select"
    /\ chan[k][n] # << >> \/ sub[k][n] = "ended"
    /\ WriteSlot(k, n, Received(chan[k][n]))
    /\ chan' = [chan EXCEPT ![k][n] = IF @ # << >> THEN Tail(@) ELSE @]
    /\ UNCHANGED <<hookVars, fnVars, restVars, repVars, ctxVars, ctxDone, callerVars, bgVars>>
    /\ UNCHANGED <<inst, sub, out, calls, inner>>

\* Mutant of WorkerTimeout: the worker waits for workerChan only.
WorkerBlocking(k, n) == WorkerRecv(k, n)

\* select, case <-ctx.Done() (logging.go:253-254).
WorkerTimeout(k, n) ==
    /\ wpc[k][n] = "select"
    /\ ctxDone
    /\ WriteSlot(k, n, ErrTimeout)
    /\ UNCHANGED <<hookVars, fnVars, restVars, repVars, ctxVars, ctxDone, callerVars, bgVars>>
    /\ UNCHANGED <<inst, sub, chan, out, calls, inner>>

\* The context is cancelled or its deadline passes.
CtxDone ==
    /\ ~ctxDone
    /\ ctxDone' = TRUE
    /\ UNCHANGED <<hookVars, fnVars, restVars, repVars, ctxVars, callerVars, taskVars, bgVars>>

\* The caller of task mode calls task.Run(tasks, ctx) (logging.go:227-257) ...
CallRun ==
    /\ mode = "task"
    /\ pc = "init"
    /\ pc' = "task"
    /\ inst' = [inst EXCEPT ![<<0, "CHECK">>] = "active"]
    /\ StartRun(<<0, "CHECK">>)
    /\ UNCHANGED <<hookVars, fnVars, restVars, repVars, ctxVars, ctxDone, i, errs, csRet, stRet, bgVars>>
    /\ UNCHANGED <<writes, out, calls, inner>>

\* ... and task.Run returns taskErrors after wg.Wait (logging.go:259-260).
RunReturn ==
    /\ pc = "task"
    /\ WaitDone(<<0, "CHECK">>)
    /\ pc' = "done"
    /\ errs' = TaskErrors(<<0, "CHECK">>)
    /\ inst' = [inst EXCEPT ![<<0, "CHECK">>] = "returned"]
    /\ NoStart
    /\ UNCHANGED <<hookVars, fnVars, restVars, repVars, ctxVars, ctxDone, i, csRet, stRet, bgVars>>
    /\ UNCHANGED <<writes, out, calls, inner>>

\* ------------------------------------------------- CallServices (caller)
\* RunServiceAction (api_service.go:200-217) up to the wg.Wait of task.Run.
BeginAction(k) ==
    /\ inst' = [inst EXCEPT ![k] = "active"]
    /\ StartRun(k)

\* RunServiceAction of k returns (api_service.go:210-216), RunServiceAction
\* of k2 begins.
EndBeginAction(k, k2) ==
    /\ inst' = [inst EXCEPT ![k] = "returned", ![k2] = "active"]
    /\ pending' = GoReporter(pending, k, TaskErrors(k))
    /\ StartRun(k2)

\* RunServiceAction of k returns (api_service.go:210-216).
EndAction(k) ==
    /\ inst' = [inst EXCEPT ![k] = "returned"]
    /\ pending' = GoReporter(pending, k, TaskErrors(k))
    /\ NoStart

\* The caller enters CallServices(stages[0]) directly, or CallStagedServices,
\* whose first iteration calls CallServices(stages[0]) (api_service.go:144-148);
\* CallServices starts the CHECK action (api_service.go:108).
Call ==
    /\ mode # "task"
    /\ pc = "init"
    /\ pc' = "check"
    /\ i' = 0
    /\ BeginAction(<<0, "CHECK">>)
    /\ started' = IF mode = "staged" THEN StageStarted(started, 0) ELSE started
    /\ UNCHANGED <<reported, fnVars, restVars, repVars, ctxVars, ctxDone, errs, csRet, stRet, bgVars>>
    /\ UNCHANGED <<writes, out, calls, inner>>

\* CHECK has returned (api_service.go:108-124).
CheckDone ==
    /\ pc = "check"
    /\ WaitDone(<<i, "CHECK">>)
    /\ LET k == <<i, "CHECK">>
           e == TaskErrors(k)
       IN  /\ errs' = e
           /\ reported' = IF AnyError(e)
                          THEN Reported(reported, i, SERVICE_CHECK, e)
                          ELSE reported
           /\ IF AnyError(e)
              THEN IF ShouldRecover
                   THEN /\ EndBeginAction(k, <<i, "RECOVER">>)
                        /\ pc' = "recover"
                        /\ UNCHANGED csRet
                   ELSE /\ EndAction(k)
                        /\ pc' = "cs_returned"
                        /\ csRet' = <<e, ErrCheck>>
              ELSE IF ShouldRun
                   THEN /\ EndBeginAction(k, <<i, "RUN">>)
                        /\ pc' = "run"
                        /\ UNCHANGED csRet
                   ELSE /\ EndAction(k)
                        /\ pc' = "cs_returned"
                        /\ csRet' = <<e, NilErr>>
    /\ UNCHANGED <<started, fnVars, restVars, rollbackReports, ctxVars, ctxDone, i, stRet, bgVars>>
    /\ UNCHANGED <<writes, out, calls, inner>>

\* RECOVER has returned (api_service.go:115-124); its errors are discarded.
RecoverDone ==
    /\ pc = "recover"
    /\ WaitDone(<<i, "RECOVER">>)
    /\ LET k == <<i, "RECOVER">>
       IN  IF AnyError(TaskErrors(k))
           THEN /\ EndAction(k)
                /\ pc' = "cs_returned"
                /\ csRet' = <<errs, ErrRecover>>
           ELSE IF ShouldRun
                THEN /\ EndBeginAction(k, <<i, "RUN">>)
                     /\ pc' = "run"
                     /\ UNCHANGED csRet
                ELSE /\ EndAction(k)
                     /\ pc' = "cs_returned"
                     /\ csRet' = <<errs, NilErr>>
    /\ UNCHANGED <<hookVars, fnVars, restVars, rollbackReports, ctxVars, ctxDone, i, errs, stRet, bgVars>>
    /\ UNCHANGED <<writes, out, calls, inner>>

\* RUN has returned (api_service.go:124-135); on an error the rollback of
\* the batch is started with a go statement and CallServices returns.
RunDone ==
    /\ pc = "run"
    /\ WaitDone(<<i, "RUN">>)
    /\ LET k == <<i, "RUN">>
           e == TaskErrors(k)
       IN  /\ errs' = e
           /\ reported' = IF AnyError(e)
                          THEN Reported(reported, i, SERVICE_RUN, e)
                          ELSE reported
           /\ EndAction(k)
           /\ pc' = "cs_returned"
           /\ IF AnyError(e)
              THEN /\ csRet' = <<e, ErrRun>>
                   /\ rb' = IF ShouldRollback
                            THEN [rb EXCEPT ![i] = "spawned"]
                            ELSE rb
              ELSE /\ csRet' = <<e, NilErr>>
                   /\ UNCHANGED rb
    /\ UNCHANGED <<started, fnVars, restVars, rollbackReports, ctxVars, ctxDone, i, stRet, srpc, sj>>
    /\ UNCHANGED <<writes, out, calls, inner>>

\* The detached RunServiceAction(ctx, services, SERVICE_ROLLBACK) of
\* CallServices begins (api_service.go:130).
RollbackStart(s) ==
    /\ rb[s] = "spawned"
    /\ rb' = [rb EXCEPT ![s] = "running"]
    /\ BeginAction(<<s, "ROLLBACK_CS">>)
    /\ UNCHANGED <<hookVars, fnVars, restVars, repVars, ctxVars, ctxDone, callerVars, srpc, sj>>
    /\ UNCHANGED <<writes, out, calls, inner>>

\* ... and returns (api_service.go:210-216).
RollbackDone(s) ==
    /\ rb[s] = "running"
    /\ WaitDone(<<s, "ROLLBACK_CS">>)
    /\ rb' = [rb EXCEPT ![s] = "done"]
    /\ EndAction(<<s, "ROLLBACK_CS">>)
    /\ UNCHANGED <<hookVars, fnVars, restVars, rollbackReports, ctxVars, ctxDone, callerVars, srpc, sj>>
    /\ UNCHANGED <<writes, out, calls, inner>>

\* ------------------------------------------- CallStagedServices (caller)
\* CallServices(stages[i]) has returned to CallStagedServices
\* (api_service.go:148-162).
StagedNext ==
    /\ mode = "staged"
    /\ pc = "cs_returned"
    /\ IF StageFailed(csRet[2])
       THEN /\ IF StagedShouldRollback
               THEN srpc' = "loop" /\ sj' = FirstRollbackStage(i)
               ELSE UNCHANGED <<srpc, sj>>
            /\ stRet' = StagedFailure(i, csRet)
            /\ pc' = "done"
            /\ UNCHANGED <<i, inst, started>>
            /\ NoStart
       ELSE IF i + 1 < nst
            THEN /\ i' = i + 1
                 /\ pc' = "check"
                 /\ started' = StageStarted(started, i + 1)
                 /\ BeginAction(<<i + 1, "CHECK">>)
                 /\ UNCHANGED <<stRet, srpc, sj>>
            ELSE /\ stRet' = StagedSuccess
                 /\ pc' = "done"
                 /\ UNCHANGED <<i, inst, srpc, sj, started>>
                 /\ NoStart
    /\ UNCHANGED <<reported, fnVars, restVars, repVars, ctxVars, ctxDone, errs, csRet, rb>>
    /\ UNCHANGED <<writes, out, calls, inner>>

\* The detached loop for j := i - 1; j >= 0; j-- (api_service.go:152-156):
\* the loop test, then RunServiceAction(ctx, stages[j], SERVICE_ROLLBACK).
StagedRollbackLoop ==
    /\ srpc = "loop"
    /\ IF sj >= 0
       THEN /\ srpc' = "wait"
            /\ BeginAction(<<sj, "ROLLBACK_ST">>)
       ELSE /\ srpc' = "done"
            /\ UNCHANGED inst
            /\ NoStart
    /\ UNCHANGED <<hookVars, fnVars, restVars, repVars, ctxVars, ctxDone, callerVars, rb, sj>>
    /\ UNCHANGED <<writes, out, calls, inner>>

\* RunServiceAction of stage j has returned; j--.
StagedRollbackDone ==
    /\ srpc = "wait"
    /\ WaitDone(<<sj, "ROLLBACK_ST">>)
    /\ EndAction(<<sj, "ROLLBACK_ST">>)
    /\ srpc' = "loop"
    /\ sj' = sj - 1
    /\ UNCHANGED <<hookVars, fnVars, restVars, rollbackReports, ctxVars, ctxDone, callerVars, rb>>
    /\ UNCHANGED <<writes, out, calls, inner>>

\* The goroutine of go RollbackErrorReporter(ctx, services, errs)
\* (api_service.go:214) makes the call.
ReporterCall(k) ==
    /\ pending[k] # << >>
    /\ rollbackReports' = [rollbackReports EXCEPT ![k] = Append(@, Head(pending[k]))]
    /\ pending' = [pending EXCEPT ![k] = Tail(@)]
    /\ UNCHANGED <<hookVars, fnVars, restVars, ctxVars, ctxDone, callerVars, taskVars, bgVars>>

\* -------------------------------------------------------- specification
TaskStep ==
    \E k \in Keys, n \in Svcs :
        \/ SubInvoke(k, n)
        \/ \E o \in Outcomes : SubReturn(k, n, o)
        \/ WorkerRecv(k, n)
        \/ WorkerTimeout(k, n)

NextTask ==
    \/ CtxDone
    \/ CallRun
    \/ RunReturn
    \/ TaskStep

Next ==
    \/ CtxDone
    \/ Call
    \/ CheckDone
    \/ RecoverDone
    \/ RunDone
    \/ \E s \in Stages : RollbackStart(s)
    \/ \E s \in Stages : RollbackDone(s)
    \/ \E k \in Keys : ReporterCall(k)
    \/ TaskStep

NextStaged ==
    \/ Next
    \/ StagedNext
    \/ StagedRollbackLoop
    \/ StagedRollbackDone

\* task.Run alone
SpecTask == InitTask /\ [][NextTask]_vars
\* one CallServices call
Spec == Init /\ [][Next]_vars
\* one CallStagedServices call
SpecStaged == InitStaged /\ [][NextStaged]_vars

\* ------------------------------------------------------------- fairness
\* The Go scheduler runs every runnable goroutine: each step of the caller,
\* of a worker, of a sub-worker up to the call of the method, and of the
\* detached rollbacks is taken if it stays enabled.  Nothing makes a service
\* method return and nothing makes the context done.  Every goroutine takes
\* finitely many steps, so weak fairness of the disjunction is weak fairness
\* of each step.
TaskProgress ==
    \E k \in Keys, n \in Svcs :
        \/ SubInvoke(k, n)
        \/ WorkerRecv(k, n)
        \/ WorkerTimeout(k, n)

FairTask == SpecTask /\ WF_vars(CallRun \/ RunReturn \/ TaskProgress)

CallServicesProgress ==
    \/ Call
    \/ CheckDone
    \/ RecoverDone
    \/ RunDone
    \/ \E s \in Stages : RollbackStart(s)
    \/ \E s \in Stages : RollbackDone(s)
    \/ \E k \in Keys : ReporterCall(k)
    \/ TaskProgress

FairSpec == Spec /\ WF_vars(CallServicesProgress)

CallStagedServicesProgress ==
    \/ CallServicesProgress
    \/ StagedNext
    \/ StagedRollbackLoop
    \/ StagedRollbackDone

FairStaged == SpecStaged /\ WF_vars(CallStagedServicesProgress)

\* ------------------------------------------------------ task.Run claims
\* The task.Run call of task mode.
TK == <<0, "CHECK">>

\* C1: task.Run returns one error per task; slot i holds the outcome task i
\* delivered or "timeout", never another task's outcome, and every slot was
\* written before Run returned.
C1_RunAligned ==
    pc = "done" =>
        /\ Len(errs) = size[0]
        /\ \A n \in 1 .. size[0] :
            /\ writes[TK][n] >= 1
            /\ slot[TK][n] # Unset
            /\ errs[n] = slot[TK][n]
            /\ \/ errs[n] = ErrTimeout
               \/ out[TK][n] # "none" /\ errs[n] = Delivered(out[TK][n])

\* Run has returned the outcomes of two tasks that ended differently.
C1_Witness ==
    /\ pc = "done"
    /\ size[0] >= 2
    /\ ~ctxDone
    /\ errs[1] = SvcErr
    /\ errs[2] = NilErr

\* C9 as stated: once the context is done while task n has not delivered its
\* outcome, slot n is never written with anything but "timeout".
C9_TimeoutIfDoneFirst ==
    \A n \in Svcs :
        []((ctxDone /\ n <= size[0] /\ out[TK][n] = "none")
            => [](slot[TK][n] # Unset => slot[TK][n] = ErrTimeout))

\* C9 (amended): a slot written before its task delivered is "timeout"; a
\* slot is "timeout" only if the context is done, and otherwise it is the
\* outcome of its own task (also when that outcome was delivered after the
\* context became done); each slot is written once and never changes.
C9_SlotInv ==
    \A n \in 1 .. size[0] :
        /\ writes[TK][n] <= 1
        /\ (slot[TK][n] # Unset) <=> (writes[TK][n] = 1)
        /\ slot[TK][n] = ErrTimeout => ctxDone
        /\ (slot[TK][n] # Unset /\ out[TK][n] = "none") => slot[TK][n] = ErrTimeout
        /\ slot[TK][n] \notin {Unset, ErrTimeout} =>
               out[TK][n] # "none" /\ slot[TK][n] = Delivered(out[TK][n])
        /\ pc = "done" => writes[TK][n] = 1

C9_NoOverwrite ==
    \A n \in Svcs : slot[TK][n] # Unset => slot'[TK][n] = slot[TK][n]

C9_SlotWrittenOnce == []C9_SlotInv /\ [][C9_NoOverwrite]_vars

\* The worker took "timeout" and the task delivered afterwards: the late
\* result sits in workerChan and the slot is still "timeout".
C9_Witness ==
    /\ pc = "done"
    /\ \E n \in 1 .. size[0] :
        /\ slot[TK][n] = ErrTimeout
        /\ sub[TK][n] = "ended"
        /\ chan[TK][n] # << >>

\* C10: under fair scheduling task.Run returns once the context is done or
\* every task has returned or panicked.
C10_RunTerminates ==
    (pc = "task" /\ (ctxDone \/ \A n \in 1 .. size[0] : sub[TK][n] = "ended"))
        ~> (pc = "done")

\* Run has returned although a task never returned.
C10_Witness ==
    /\ pc = "done"
    /\ ctxDone
    /\ \E n \in 1 .. size[0] : sub[TK][n] = "running" /\ errs[n] = ErrTimeout

\* Task n of the task.Run call did not return normally.
Panicked(n) == out[TK][n] \in {"panic", "panicnil"}

\* C11: the slot of a task whose Run panics is "internal server error", or
\* "timeout" when the context was done first; the slots of the other tasks
\* hold their own outcomes.
C11_PanicIsolated ==
    \A n \in 1 .. size[0] :
        /\ (Panicked(n) /\ slot[TK][n] # Unset)
               => \/ slot[TK][n] = ErrInternal
                  \/ slot[TK][n] = ErrTimeout /\ ctxDone
        /\ (~Panicked(n) /\ slot[TK][n] \notin {Unset, ErrTimeout})
               => slot[TK][n] = Delivered(out[TK][n])

\* What holds of C11: a panic whose value recover() reports gives
\* "internal server error" or "timeout", and every slot holds "timeout" or
\* what its own task delivered.
C11_RecoveredPanicIsolated ==
    \A n \in 1 .. size[0] :
        /\ (out[TK][n] = "panic" /\ slot[TK][n] # Unset)
               => \/ slot[TK][n] = ErrInternal
                  \/ slot[TK][n] = ErrTimeout /\ ctxDone
        /\ slot[TK][n] \notin {Unset, ErrTimeout}
               => slot[TK][n] = Delivered(out[TK][n])

\* ------------------------------------------- slots and outcome channels
\* What holds of slot n and workerChan n in every state: the slot has been
\* written at most once, the channel never holds more than its capacity and
\* nothing before the task has ended, and while the task runs there is room
\* for whatever the sub-worker will send.
C33_ChanInv ==
    \A n \in 1 .. size[0] :
        /\ writes[TK][n] <= 1
        /\ Len(chan[TK][n]) <= WorkerChanCap
        /\ sub[TK][n] # "ended" => chan[TK][n] = << >>
        /\ sub[TK][n] = "running" =>
               \A o \in Outcomes : Room(chan[TK][n], Sent(o))

\* Who writes slot n and who sends and receives on workerChan n: the slot
\* changes only in the step in which worker n leaves its select; a value
\* enters the channel only in the step in which sub-worker n ends, and it is
\* what task n delivered; a value leaves it only in the step in which
\* worker n leaves its select, and it goes into slot n.
C33_OwnSlotAndChan ==
    \A n \in 1 .. size[0] :
        /\ slot'[TK][n] # slot[TK][n] =>
               wpc[TK][n] = "select" /\ wpc'[TK][n] = "done"
        /\ Len(chan'[TK][n]) > Len(chan[TK][n]) =>
               /\ sub[TK][n] = "running" /\ sub'[TK][n] = "ended"
               /\ chan'[TK][n] = Append(chan[TK][n], Delivered(out'[TK][n]))
        /\ Len(chan'[TK][n]) < Len(chan[TK][n]) =>
               /\ wpc[TK][n] = "select" /\ wpc'[TK][n] = "done"
               /\ slot'[TK][n] = Head(chan[TK][n])
               /\ chan'[TK][n] = Tail(chan[TK][n])

\* The sub-worker that ends sends exactly one value.
C33_OneValue ==
    \A n \in 1 .. size[0] :
        (sub[TK][n] = "running" /\ sub'[TK][n] = "ended")
            => Len(chan'[TK][n]) = Len(chan[TK][n]) + 1

\* The sub-worker that ends sends one value, or none when its task ended
\* with recover() giving nil.
C33_OneValueOrNone ==
    \A n \in 1 .. size[0] :
        (sub[TK][n] = "running" /\ sub'[TK][n] = "ended")
            => Len(chan'[TK][n]) =
                   Len(chan[TK][n]) + (IF out'[TK][n] = "panicnil" THEN 0 ELSE 1)

\* A worker whose context is done or whose sub-worker has ended leaves its
\* select.
C33_WorkerLeaves ==
    \A n \in Svcs :
        (wpc[TK][n] = "select" /\ (ctxDone \/ sub[TK][n] = "ended"))
            ~> (wpc[TK][n] = "done")

Invoked(s, a, n) == calls[s][a][n]

\* The slot of task n of call k is populated: the method has returned and its
\* outcome was received, or the worker gave it up with "timeout".
Settled(k, n) ==
    /\ slot[k][n] # Unset
    /\ sub[k][n] = "ended" \/ slot[k][n] = ErrTimeout

\* C2: when RUN of a CallServices without SkipRollback yields an error,
\* Rollback is eventually invoked on every service of the batch, and never
\* more than once on any.
C2_RollbackEveryService ==
    /\ [](\A s \in Stages, n \in Svcs : Invoked(s, SERVICE_ROLLBACK, n) <= 1)
    /\ (pc = "cs_returned" /\ csRet[2] = ErrRun /\ ~skipRollback)
           ~> (\A n \in 1 .. size[0] : Invoked(0, SERVICE_ROLLBACK, n) = 1)

\* RUN failed although the Run of service 1 succeeded; both services have
\* been rolled back.
C2_Witness ==
    /\ pc = "cs_returned"
    /\ csRet[2] = ErrRun
    /\ size[0] >= 2
    /\ out[<<0, "RUN">>][1] = "nil"
    /\ csRet[1][1] = NilErr
    /\ \A n \in 1 .. size[0] : Invoked(0, SERVICE_ROLLBACK, n) = 1

\* C3: with dryRun in the context CallServices invokes neither Run nor
\* Rollback on any service and starts no RUN or ROLLBACK action.
C3_DryRunOnlyChecks ==
    dryRun =>
        \A s \in Stages :
            /\ inst[<<s, "RUN">>] = "none"
            /\ inst[<<s, "ROLLBACK_CS">>] = "none"
            /\ rb[s] = "none"
            /\ \A n \in Svcs :
                /\ Invoked(s, SERVICE_RUN, n) = 0
                /\ Invoked(s, SERVICE_ROLLBACK, n) = 0

\* A dry run with recover set and rollback not skipped has returned the
\* failure of CHECK.
C3_Witness ==
    /\ dryRun
    /\ recover
    /\ ~skipRollback
    /\ pc = "cs_returned"
    /\ csRet[2] = ErrCheck

\* C5 as stated: Run is invoked only when every Check of the batch has
\* returned, Rollback only when every Run of the batch has returned.
C5_StrictOrder ==
    \A s \in Stages :
        /\ (\E n \in Svcs : Invoked(s, SERVICE_RUN, n) > 0)
               => \A m \in 1 .. size[s] : sub[<<s, "CHECK">>][m] = "ended"
        /\ (\E n \in Svcs : Invoked(s, SERVICE_ROLLBACK, n) > 0)
               => \A m \in 1 .. size[s] : sub[<<s, "RUN">>][m] = "ended"

\* C5 (amended): Run is invoked only when every Check slot of the batch is
\* populated, Rollback only when every Run slot is: the earlier method has
\* returned or was given up with "timeout"; the order is strict while the
\* context is not done.
C5_OrderUpToTimeout ==
    /\ \A s \in Stages :
        /\ (\E n \in Svcs : Invoked(s, SERVICE_RUN, n) > 0)
               => \A m \in 1 .. size[s] : Settled(<<s, "CHECK">>, m)
        /\ (\E n \in Svcs : Invoked(s, SERVICE_ROLLBACK, n) > 0)
               => \A m \in 1 .. size[s] : Settled(<<s, "RUN">>, m)
    /\ ~ctxDone => C5_StrictOrder

\* A Rollback has been invoked while a Run of the batch, given up with
\* "timeout", has not returned.
C5_Witness ==
    \E n, m \in 1 .. size[0] :
        /\ Invoked(0, SERVICE_ROLLBACK, n) = 1
        /\ sub[<<0, "RUN">>][m] = "running"
        /\ slot[<<0, "RUN">>][m] = ErrTimeout

\* The lists the CHECK, RECOVER and RUN actions of a direct call returned.
CheckErrs == TaskErrors(<<0, "CHECK">>)
RecoverErrs == TaskErrors(<<0, "RECOVER">>)
RunErrs == TaskErrors(<<0, "RUN">>)

\* The CHECK action of the direct call has returned at least one error.
CheckFailed == inst[<<0, "CHECK">>] = "returned" /\ AnyError(CheckErrs)

\* No method a is invoked on any service, at no call site.
NeverInvoked(a) ==
    /\ \A s \in Stages, n \in Svcs : Invoked(s, a, n) = 0
    /\ \A k \in Keys : ActionOf(k[2]) = a => inst[k] = "none"

\* C12: when CHECK yields an error and the context does not carry recover,
\* CallServices returns the CHECK errors with "one or more pre-run checks
\* failed" and invokes no Recover, no Run and no Rollback.
C12_CheckFailureReturned ==
    (CheckFailed /\ ~recover) =>
        /\ pc = "cs_returned"
        /\ csRet = <<CheckErrs, ErrCheck>>
        /\ NeverInvoked(SERVICE_RECOVER)
        /\ NeverInvoked(SERVICE_RUN)
        /\ NeverInvoked(SERVICE_ROLLBACK)
        /\ rb[0] = "none"

\* Without recover and without dryRun, the Check of service 2 alone failed
\* and CallServices has returned.
C12_Witness ==
    /\ ~recover
    /\ ~dryRun
    /\ ~skipRollback
    /\ pc = "cs_returned"
    /\ size[0] = 2
    /\ csRet = <<(<<NilErr, SvcErr>>), ErrCheck>>

\* C13: when CHECK fails with recover and without dryRun, RECOVER is run; if
\* a Recover fails CallServices returns the CHECK errors with "unable to
\* recover from one or more failed pre-run checks" and invokes no Run and no
\* Rollback; if every Recover succeeds RUN is started and CHECK is not run
\* again.
C13_RecoverBranch ==
    (CheckFailed /\ recover /\ ~dryRun) =>
        /\ inst[<<0, "RECOVER">>] # "none"
        /\ \A n \in Svcs : Invoked(0, SERVICE_CHECK, n) <= 1
        /\ inst[<<0, "RECOVER">>] = "active" =>
               /\ pc = "recover"
               /\ NeverInvoked(SERVICE_RUN)
        /\ inst[<<0, "RECOVER">>] = "returned" =>
               IF AnyError(RecoverErrs)
               THEN /\ pc = "cs_returned"
                    /\ csRet = <<CheckErrs, ErrRecover>>
                    /\ NeverInvoked(SERVICE_RUN)
                    /\ NeverInvoked(SERVICE_ROLLBACK)
                    /\ rb[0] = "none"
               ELSE inst[<<0, "RUN">>] # "none"

\* The Check of service 1 failed, the Recover of service 2 failed, and
\* CallServices has returned the errors of CHECK.
C13_Witness ==
    /\ recover
    /\ ~dryRun
    /\ pc = "cs_returned"
    /\ size[0] = 2
    /\ CheckErrs = <<SvcErr, NilErr>>
    /\ RecoverErrs = <<NilErr, SvcErr>>
    /\ csRet = <<(<<SvcErr, NilErr>>), ErrRecover>>

\* C14: Recover is invoked on a service only after the CHECK of its batch
\* returned an error, only with recover and never with dryRun in the context;
\* with dryRun and recover and a failing CHECK no Recover is invoked and the
\* summary is "one or more pre-run checks failed".
C14_RecoverOnlyWhenAsked ==
    /\ \A s \in Stages, n \in Svcs :
        Invoked(s, SERVICE_RECOVER, n) > 0 =>
            /\ recover
            /\ ~dryRun
            /\ inst[<<s, "CHECK">>] = "returned"
            /\ AnyError(TaskErrors(<<s, "CHECK">>))
    /\ (CheckFailed /\ recover /\ dryRun) =>
            /\ pc = "cs_returned"
            /\ csRet[2] = ErrCheck
            /\ NeverInvoked(SERVICE_RECOVER)

\* With dryRun and recover, the Checks of both services failed and
\* CallServices has returned without a Recover.
C14_Witness ==
    /\ dryRun
    /\ recover
    /\ pc = "cs_returned"
    /\ size[0] = 2
    /\ csRet = <<(<<SvcErr, SvcErr>>), ErrCheck>>
    /\ \A n \in Svcs : Invoked(0, SERVICE_RECOVER, n) = 0

\* The call site whose list CallServices returns with summary err.
ReturnedSite(err) ==
    CASE err = ErrCheck -> "CHECK"
      [] err = ErrRecover -> "CHECK"
      [] err = ErrRun -> "RUN"
      [] err = NilErr -> IF dryRun THEN "CHECK" ELSE "RUN"

\* C15: on every return of CallServices the error list has one slot per
\* service, slot n being the outcome of service n in the action whose list is
\* returned, and the summary is nil exactly when every slot is nil.
C15_ListMatchesSummary ==
    pc = "cs_returned" =>
        LET k == <<i, ReturnedSite(csRet[2])>>
        IN  /\ DOMAIN csRet[1] = 1 .. size[i]
            /\ csRet[2] = NilErr <=> \A n \in 1 .. size[i] : csRet[1][n] = NilErr
            /\ inst[k] = "returned"
            /\ \A n \in 1 .. size[i] :
                /\ csRet[1][n] = slot[k][n]
                /\ \/ csRet[1][n] = ErrTimeout
                   \/ out[k][n] # "none" /\ csRet[1][n] = Delivered(out[k][n])

\* CallServices has returned success after CHECK failed and RECOVER
\* succeeded: the list is that of RUN.
C15_Witness ==
    /\ pc = "cs_returned"
    /\ size[0] = 2
    /\ CheckErrs = <<SvcErr, NilErr>>
    /\ inst[<<0, "RECOVER">>] = "returned"
    /\ csRet = <<(<<NilErr, NilErr>>), NilErr>>

\* C18: what CallServices returned after a failed RUN is the list of RUN
\* with "one or more runs failed"; the rollback is then a goroutine of its
\* own, and no step taken after the return, of the rollback or of anything
\* else, changes the returned list.
C18_ReturnedListStable ==
    /\ []((pc = "cs_returned" /\ csRet[2] = ErrRun)
            => /\ csRet[1] = RunErrs
               /\ ~skipRollback => rb[0] # "none")
    /\ [][pc = "cs_returned" => csRet' = csRet]_vars

\* CallServices has returned the failure of RUN and the rollback goroutine
\* has not begun: no Rollback has been invoked.
C18_Witness ==
    /\ pc = "cs_returned"
    /\ csRet[2] = ErrRun
    /\ csRet[1] = RunErrs
    /\ rb[0] = "spawned"
    /\ inst[<<0, "ROLLBACK_CS">>] = "none"
    /\ \A n \in Svcs : Invoked(0, SERVICE_ROLLBACK, n) = 0

\* The rollback has finished with an error of its own after the return.
C18_RollbackFailedLater ==
    /\ pc = "cs_returned"
    /\ csRet = <<(<<SvcErr>>), ErrRun>>
    /\ rb[0] = "done"
    /\ TaskErrors(<<0, "ROLLBACK_CS">>) = <<ErrTimeout>>

\* The calls of OnActionError made for action a of stage s.
ReportsOf(s, a) ==
    {n \in 1 .. Len(reported) : reported[n][1] = s /\ reported[n][2] = a}

\* Action a of stage s has returned a list with an error.
ActionFailed(s, a) ==
    /\ inst[<<s, a>>] = "returned"
    /\ \E m \in 1 .. size[s] : TaskErrors(<<s, a>>)[m] # NilErr

\* C19: OnActionError, when set, is called exactly once for each CHECK or RUN
\* action that returned an error, with that action and its list, before any
\* Recover or Rollback of the batch is started; it is not called for RECOVER
\* or ROLLBACK, for an action without errors, or when it is nil.
C19_OnActionError ==
    /\ ~onActionError => reported = << >>
    /\ \A n \in 1 .. Len(reported) :
        /\ reported[n][2] \in {SERVICE_CHECK, SERVICE_RUN}
        /\ ActionFailed(reported[n][1], reported[n][2])
        /\ reported[n][3] = TaskErrors(<<reported[n][1], reported[n][2]>>)
    /\ onActionError =>
        \A st \in Stages :
            /\ \A a \in {SERVICE_CHECK, SERVICE_RUN} :
                  Cardinality(ReportsOf(st, a)) = IF ActionFailed(st, a) THEN 1 ELSE 0
            /\ inst[<<st, "RECOVER">>] # "none" => ReportsOf(st, SERVICE_CHECK) # {}
            /\ (rb[st] # "none" \/ inst[<<st, "ROLLBACK_CS">>] # "none")
                  => ReportsOf(st, SERVICE_RUN) # {}
            /\ \A n \in ReportsOf(st, SERVICE_CHECK), m \in ReportsOf(st, SERVICE_RUN) :
                  n < m

\* CHECK failed and was recovered, RUN failed: OnActionError has been called
\* for CHECK, then for RUN, and a Rollback has been invoked.
C19_Witness ==
    /\ onActionError
    /\ size[0] = 2
    /\ Len(reported) = 2
    /\ reported[1] = <<0, SERVICE_CHECK, CheckErrs>>
    /\ reported[2] = <<0, SERVICE_RUN, RunErrs>>
    /\ AnyError(RecoverErrs) = FALSE
    /\ inst[<<0, "ROLLBACK_CS">>] = "returned"
    /\ AnyError(TaskErrors(<<0, "ROLLBACK_CS">>))

\* ------------------------------------------- Recover of a single service
\* C32: Recover is invoked on a service only with recover in the context and
\* only when the CHECK action recorded an error for that service itself.
C32_RecoverOnlyFailedService ==
    \A s \in Stages, n \in Svcs :
        Invoked(s, SERVICE_RECOVER, n) > 0 =>
            /\ recover
            /\ n \in 1 .. size[s]
            /\ slot[<<s, "CHECK">>][n] # NilErr

\* The Check of service 1 failed and that of service 2 succeeded; Recover
\* has been invoked on both.
C32_RecoverOnSucceeded ==
    /\ recover
    /\ size[0] = 2
    /\ CheckErrs = <<SvcErr, NilErr>>
    /\ out[<<0, "CHECK">>][2] = "nil"
    /\ \A n \in 1 .. 2 : Invoked(0, SERVICE_RECOVER, n) = 1

\* --------------------------------------------- CallStagedServices claims
\* CallStagedServices has returned the failure of a stage.
StagedFailed == pc = "done" /\ stRet[3] # NilErr

\* Rollback has been invoked on every service of stage s.
RolledBack(s) == \A n \in 1 .. size[s] : Invoked(s, SERVICE_ROLLBACK, n) >= 1

\* C4: a Rollback is invoked on a service only if the RUN action was invoked
\* on its batch, and never when the context carries dryRun.
C4_RollbackOnlyAfterRun ==
    \A s \in Stages, n \in Svcs :
        Invoked(s, SERVICE_ROLLBACK, n) > 0
            => ~dryRun /\ inst[<<s, "RUN">>] # "none"

\* C6: after the failure of stage k without SkipRollback the detached loop
\* runs ROLLBACK only on stages below k, from k-1 downwards: the ROLLBACK of
\* stage j-1 begins only when the ROLLBACK of stage j has returned with every
\* slot populated, and the loop ends only when all of them have returned;
\* once the context is done the loop reaches stage 0 and ends.
C6_ReverseOrder ==
    /\ [](\A s \in Stages :
            inst[<<s, "ROLLBACK_ST">>] # "none"
                => /\ StagedFailed
                   /\ ~skipRollback
                   /\ s < stRet[1]
                   /\ \A t \in Stages :
                        (s < t /\ t < stRet[1])
                            => /\ inst[<<t, "ROLLBACK_ST">>] = "returned"
                               /\ \A n \in 1 .. size[t] :
                                    Settled(<<t, "ROLLBACK_ST">>, n))
    /\ [](srpc = "done"
            => \A s \in Stages :
                 s < stRet[1] => inst[<<s, "ROLLBACK_ST">>] = "returned")
    /\ (StagedFailed /\ ~skipRollback /\ ctxDone) ~> (srpc = "done")

\* Stage 2 has failed, the ROLLBACK of stage 1 has returned and that of
\* stage 0 is in progress.
C6_Witness ==
    /\ StagedFailed
    /\ stRet[1] = 2
    /\ inst[<<1, "ROLLBACK_ST">>] = "returned"
    /\ inst[<<0, "ROLLBACK_ST">>] = "active"
    /\ Invoked(0, SERVICE_ROLLBACK, 1) = 1

\* The two services of one stage are inside Rollback at the same time.
C6_Parallel ==
    \E s \in Stages :
        /\ size[s] >= 2
        /\ inst[<<s, "ROLLBACK_ST">>] = "active"
        /\ \A n \in 1 .. size[s] : sub[<<s, "ROLLBACK_ST">>][n] = "running"

LaterStagesUntouched ==
    \A s \in Stages, a \in ServiceAction, n \in Svcs :
        s > i => Invoked(s, a, n) = 0

\* Every service of stage s has completed the action at site c successfully.
Succeeded(s, c) ==
    /\ inst[<<s, c>>] = "returned"
    /\ \A n \in 1 .. size[s] :
        /\ sub[<<s, c>>][n] = "ended"
        /\ out[<<s, c>>][n] = "nil"
        /\ slot[<<s, c>>][n] = NilErr

C16_SkipRollback ==
    skipRollback =>
        /\ NeverInvoked(SERVICE_ROLLBACK)
        /\ \A s \in Stages : rb[s] = "none"
        /\ srpc = "none"
        /\ \A s \in Stages :
              (/\ inst[<<s, "RUN">>] = "returned"
               /\ AnyError(TaskErrors(<<s, "RUN">>))
               /\ pc = "done")
                  => stRet = <<s, TaskErrors(<<s, "RUN">>), ErrRun>>
        /\ \A s \in Stages :
              (/\ inst[<<s, "CHECK">>] = "returned"
               /\ AnyError(TaskErrors(<<s, "CHECK">>))
               /\ inst[<<s, "RECOVER">>] = "none"
               /\ pc = "done")
                  => stRet = <<s, TaskErrors(<<s, "CHECK">>), ErrCheck>>
        /\ \A s \in Stages :
              (/\ inst[<<s, "RECOVER">>] = "returned"
               /\ AnyError(TaskErrors(<<s, "RECOVER">>))
               /\ pc = "done")
                  => stRet = <<s, TaskErrors(<<s, "CHECK">>), ErrRecover>>

\* With SkipRollback stage 1 has failed in RUN after stage 0 ran, and
\* CallStagedServices has returned.
C16_Witness ==
    /\ skipRollback
    /\ StagedFailed
    /\ stRet[1] = 1
    /\ stRet[3] = ErrRun
    /\ inst[<<0, "RUN">>] = "returned"
    /\ \A s \in Stages, n \in Svcs : Invoked(s, SERVICE_ROLLBACK, n) = 0

\* CallServices of stage s has returned without error: its last action, RUN
\* (CHECK in a dry run), succeeded on every service.
StageSucceeded(s) == Succeeded(s, IF dryRun THEN "CHECK" ELSE "RUN")

\* C17: CallStagedServices returns (k, list, summary) of the first stage k
\* whose CallServices returned a summary, k < len(stages), the list having one
\* slot per service of stages[k]; it returns (len(stages), nil, nil) when
\* every stage succeeded.
C17_StagedReturn ==
    pc = "done" =>
        IF stRet[3] # NilErr
        THEN LET k == stRet[1]
             IN  /\ k \in 0 .. (nst - 1)
                 /\ k = i
                 /\ stRet[3] \in {ErrCheck, ErrRecover, ErrRun}
                 /\ DOMAIN stRet[2] = 1 .. size[k]
                 /\ stRet[2] = TaskErrors(<<k, ReturnedSite(stRet[3])>>)
                 /\ \E n \in 1 .. size[k] : stRet[2][n] # NilErr
                 /\ \A s \in 0 .. (k - 1) : StageSucceeded(s)
                 /\ inst[<<k, "CHECK">>] = "returned"
        ELSE /\ stRet = <<nst, << >>, NilErr>>
             /\ \A s \in 0 .. (nst - 1) : StageSucceeded(s)

\* The last of three stages failed in RUN: (2, its list, its summary).
C17_Witness ==
    /\ pc = "done"
    /\ nst = 3
    /\ ~dryRun
    /\ stRet = <<2, <<SvcErr>>, ErrRun>>

\* Three stages succeeded: (3, nil, nil).
C17_AllSucceeded ==
    /\ pc = "done"
    /\ ~dryRun
    /\ stRet = <<3, << >>, NilErr>>

\* The stages CallStagedServices has begun.
StagesBegun == IF pc = "init" THEN 0 ELSE i + 1

\* C20: OnStageStart, when set, has been called once for each stage begun, in
\* index order and before the CHECK of the stage begins, CallServices adding
\* no call of its own; it is not called for a stage after the failing one, or
\* when it is nil.
C20_OnStageStart ==
    /\ ~onStageStart => started = << >>
    /\ onStageStart =>
        /\ Len(started) = StagesBegun
        /\ \A n \in 1 .. Len(started) : started[n] = n - 1
        /\ \A s \in Stages :
              inst[<<s, "CHECK">>] # "none" => \E n \in 1 .. Len(started) : started[n] = s
    /\ StagedFailed => \A n \in 1 .. Len(started) : started[n] <= stRet[1]

\* Stage 1 of three failed: OnStageStart was called for stages 0 and 1 only.
C20_Witness ==
    /\ onStageStart
    /\ nst = 3
    /\ StagedFailed
    /\ stRet[1] = 1
    /\ started = <<0, 1>>

\* A direct CallServices call does not call OnStageStart although it is set.
C20_NotByCallServices == (mode = "direct" /\ onStageStart) => started = << >>

\* ------------------------------- the two detached rollbacks of a stage
\* C31: when stage k has failed in RUN, the ROLLBACK of stage k which
\* CallServices started has returned by the time the loop of
\* CallStagedServices begins the ROLLBACK of stage k-1.
C31_FailingStageRolledBackFirst ==
    (/\ StagedFailed
     /\ stRet[3] = ErrRun
     /\ stRet[1] > 0
     /\ inst[<<stRet[1] - 1, "ROLLBACK_ST">>] # "none")
        => inst[<<stRet[1], "ROLLBACK_CS">>] = "returned"

\* Stage 1 failed in RUN; the loop has rolled stage 0 back and ended while
\* the goroutine CallServices started for stage 1 has not begun: no Rollback
\* has been invoked on stage 1.
C31_EarlierStageFirst ==
    /\ StagedFailed
    /\ stRet[1] = 1
    /\ stRet[3] = ErrRun
    /\ srpc = "done"
    /\ RolledBack(0)
    /\ rb[1] = "spawned"
    /\ \A n \in 1 .. size[1] : Invoked(1, SERVICE_ROLLBACK, n) = 0

\* ------------------------------------------ RollbackErrorReporter claims
\* The ROLLBACK actions: of CallServices (line 130) and of the loop of
\* CallStagedServices (line 154).
RbKeys == {k \in Keys : ActionOf(k[2]) = SERVICE_ROLLBACK}

\* The go statements of line 214 made for action k, called or not yet.
ReporterGone(k) == pending[k] \o rollbackReports[k]

\* No ROLLBACK action has begun.
NoRollbackYet == \A k \in RbKeys : inst[k] = "none"

C22_ReporterOnlyOnErrors ==
    \A k \in Keys :
        \A c \in 1 .. Len(rollbackReports[k]) : AnyError(rollbackReports[k][c][2])

\* ----------------------------------------- rollback with a done context
\* The RUN action and the detached ROLLBACK action of a CallServices call.
RUNK == <<0, "RUN">>
RBK == <<0, "ROLLBACK_CS">>

\* A worker of RUN took the ctx.Done case: the context was done before RUN
\* returned, hence before the go statement of line 130 and before the
\* ROLLBACK action started.
RunTimedOut == \E m \in 1 .. size[0] : slot[RUNK][m] = ErrTimeout

\* C30 as stated: when the context is already done as the background
\* ROLLBACK action starts, every slot of its error list is "timeout".
C30_AllTimeout ==
    RunTimedOut =>
        \A n \in 1 .. size[0] : slot[RBK][n] \in {Unset, ErrTimeout}

\* C30 (amended): every slot of the rollback's error list is "timeout" or
\* the outcome the service's own Rollback had delivered when its worker
\* selected; a slot written before the Rollback returned is "timeout"; a
\* slot is written once and a "timeout" slot is not replaced by a result
\* that comes later.
C30_SlotInv ==
    \A n \in 1 .. size[0] :
        /\ writes[RBK][n] <= 1
        /\ slot[RBK][n] = ErrTimeout => ctxDone
        /\ slot[RBK][n] # Unset =>
              \/ slot[RBK][n] = ErrTimeout
              \/ /\ out[RBK][n] # "none"
                 /\ slot[RBK][n] = Delivered(out[RBK][n])

C30_TimeoutKept ==
    \A n \in Svcs : slot[RBK][n] = ErrTimeout => slot'[RBK][n] = ErrTimeout

C30_TimeoutOrOwnOutcome == []C30_SlotInv /\ [][C30_TimeoutKept]_vars

\* RUN timed out, so the context was done when the rollback started, and
\* the rollback's list still holds the nil that Rollback of service 1
\* delivered; the list was returned.
C30_Witness ==
    /\ RunTimedOut
    /\ inst[RBK] = "returned"
    /\ out[RBK][1] = "nil"
    /\ slot[RBK][1] = NilErr

\* ------------------------------------------- functions called on their own
\* The sequences over S of length 0 .. n.
SeqsUpTo(S, n) == UNION {[1 .. m -> S] : m \in 0 .. n}

\* The values an element of a []error has in the package.
ErrValues == {NilErr, SvcErr, ErrTimeout}

\* The orchestration state of a call that starts no orchestration.
InitNoCall ==
    /\ nst = 1
    /\ size = [s \in Stages |-> 0]
    /\ dryRun = FALSE
    /\ recover = FALSE
    /\ skipRollback = FALSE
    /\ onActionError = FALSE
    /\ onStageStart = FALSE
    /\ reporter = FALSE
    /\ wrapped = FALSE
    /\ InitIdle
    /\ InitNoRest

\* task.AnyError(errors) on a list of 0 .. MaxErrors errors.
InitAnyError ==
    /\ mode = "AnyError"
    /\ InitNoCall
    /\ args \in SeqsUpTo(ErrValues, MaxErrors)
    /\ result = << >>

\* The call of task.AnyError (logging.go:264-271).
CallAnyError ==
    /\ mode = "AnyError"
    /\ result = << >>
    /\ result' = <<AnyError(args)>>
    /\ UNCHANGED <<orchVars, args>>

NextAnyError == CallAnyError

SpecAnyError == InitAnyError /\ [][NextAnyError]_vars

\* C29: AnyError(list) is true exactly when some element of the list is a
\* non-nil error, and false for the empty list.
C29_AnyError ==
    (mode = "AnyError" /\ result # << >>) =>
        /\ result[1] = (\E n \in 1 .. Len(args) : args[n] # NilErr)
        /\ Len(args) = 0 => result[1] = FALSE

\* AnyError returned true for a list of three whose only error is the last.
C29_Witness ==
    /\ mode = "AnyError"
    /\ args = <<NilErr, NilErr, ErrTimeout>>
    /\ result = <<TRUE>>

\* --------------------------------------------------------------- replies
\* The panic of an index outside a slice.
IndexOutOfRange == "panic: index out of range"

\* What a service is to the functions of payload.go: its Name() and the
\* fields of its Responder (api_service.go:43-46), which Payload
\* (payload.go:17-19) has with UseNullResponseAsDefault false.
Responders(names) ==
    [name : names, Response : {NilAny, "data"}, UseNullResponseAsDefault : BOOLEAN]

\* Responder.GetResponse and Payload.GetResponse (api_service.go:48-56,
\* payload.go:21-29): the message of the error, else "ok" for a nil
\* Response that is not the default, else the Response.
GetResponse(service, err) ==
    IF err # NilErr THEN err
    ELSE IF ~service.UseNullResponseAsDefault /\ service.Response = NilAny THEN "ok"
    ELSE service.Response

\* generateResponseContainer (payload.go:31-41): the HTTP status and the
\* status of the reply.
generateResponseContainer(err) ==
    IF err # NilErr THEN <<500, err>> ELSE <<200, "ok">>

\* Mutant of AppendDetail: a nil detail is appended too.
AppendDetailAlways(details, service, detail) ==
    Append(details, <<service.name, detail>>)

\* The body of the loop of GenerateResponse (payload.go:48-53).
AppendDetail(details, service, detail) ==
    IF detail # NilAny THEN Append(details, <<service.name, detail>>)
    ELSE details

\* The loop of GenerateResponse from service i on (payload.go:46-54);
\* errs[i] outside errs panics.
RECURSIVE GenerateResponseFrom(_, _, _, _)
GenerateResponseFrom(services, errors, n, details) ==
    IF n > Len(services) THEN details
    ELSE IF n > Len(errors) THEN IndexOutOfRange
    ELSE GenerateResponseFrom(services, errors, n + 1,
            AppendDetail(details, services[n], GetResponse(services[n], errors[n])))

\* GenerateResponse (payload.go:43-57): <<HTTP status, Status, Details>>.
GenerateResponse(services, errors, err) ==
    LET c == generateResponseContainer(err)
        d == GenerateResponseFrom(services, errors, 1, << >>)
    IN  IF d = IndexOutOfRange THEN IndexOutOfRange ELSE <<c[1], c[2], d>>

\* GenerateResponse(services, errs, err) on 0 .. NServices services and
\* 0 .. NServices errors.
InitGenerateResponse ==
    /\ mode = "GenerateResponse"
    /\ InitNoCall
    /\ args \in SeqsUpTo(Responders({"a", "b"}), NServices)
                    \X SeqsUpTo({NilErr, SvcErr}, NServices)
                    \X {NilErr, ErrRun}
    /\ result = << >>

\* The call of GenerateResponse.
CallGenerateResponse ==
    /\ mode = "GenerateResponse"
    /\ result = << >>
    /\ result' = <<GenerateResponse(args[1], args[2], args[3])>>
    /\ UNCHANGED <<orchVars, args>>

NextGenerateResponse == CallGenerateResponse

SpecGenerateResponse == InitGenerateResponse /\ [][NextGenerateResponse]_vars

\* The entry of service n with its detail for errors[n].
DetailOf(services, errors, n) ==
    <<services[n].name, GetResponse(services[n], errors[n])>>

HasDetail(d) == d[2] # NilAny

\* C26: GenerateResponse returns 500 with the summary message as status
\* when the summary is a failure and 200 with "ok" otherwise; details holds,
\* in service order, the entry {name, detail} of exactly the services whose
\* GetResponse(errs[i]) is non-nil.
C26_GenerateResponse ==
    (mode = "GenerateResponse" /\ result # << >> /\ Len(args[2]) >= Len(args[1])) =>
        /\ result[1] # IndexOutOfRange
        /\ IF args[3] # NilErr
           THEN result[1][1] = 500 /\ result[1][2] = args[3]
           ELSE result[1][1] = 200 /\ result[1][2] = "ok"
        /\ result[1][3] =
              SelectSeq([n \in 1 .. Len(args[1]) |-> DetailOf(args[1], args[2], n)],
                        HasDetail)

\* A failure reply of two services: the first failed, the second has a nil
\* Response as its default and so no entry.
C26_Witness ==
    /\ mode = "GenerateResponse"
    /\ args[3] = ErrRun
    /\ args[2] = <<SvcErr, NilErr>>
    /\ Len(args[1]) = 2
    /\ args[1][2].UseNullResponseAsDefault /\ args[1][2].Response = NilAny
    /\ result = <<<<500, ErrRun, <<<<args[1][1].name, SvcErr>>>>>>>>

\* Mutant of StageErrors: the list given for a stage is empty.
StageErrorsEmpty(stage) == << >>

\* make([]error, len(stage)) (payload.go:67): one nil error per service.
StageErrors(stage) == [n \in 1 .. Len(stage) |-> NilErr]

\* The loop of GenerateStagedResponse from stage s on (payload.go:66-69):
\* the details of each stage are appended to those gathered so far.
RECURSIVE GenerateStagedResponseFrom(_, _, _)
GenerateStagedResponseFrom(stages, s, details) ==
    IF s > Len(stages) THEN details
    ELSE LET r == GenerateResponse(stages[s], StageErrors(stages[s]), NilErr)
         IN  IF r = IndexOutOfRange THEN IndexOutOfRange
             ELSE GenerateStagedResponseFrom(stages, s + 1, details \o r[3])

\* GenerateStagedResponse (payload.go:59-72); failedStageIndex counts from
\* 0, and stages[failedStageIndex] outside stages panics.
GenerateStagedResponse(stages, failedStageIndex, errors, err) ==
    IF err # NilErr
    THEN IF failedStageIndex + 1 \in 1 .. Len(stages)
         THEN GenerateResponse(stages[failedStageIndex + 1], errors, err)
         ELSE IndexOutOfRange
    ELSE LET d == GenerateStagedResponseFrom(stages, 1, << >>)
         IN  IF d = IndexOutOfRange THEN IndexOutOfRange ELSE <<200, "ok", d>>

\* The stage lists of 0 .. NStages batches of 0 .. NServices services, a
\* service being named by its stage and its place in it.
StageLists ==
    {[s \in 1 .. Len(r) |->
        [n \in 1 .. Len(r[s]) |->
            [name |-> <<s - 1, n>>,
             Response |-> r[s][n][1],
             UseNullResponseAsDefault |-> r[s][n][2]]]] :
     r \in SeqsUpTo(SeqsUpTo({<<NilAny, FALSE>>, <<NilAny, TRUE>>, <<"data", FALSE>>},
                              NServices), NStages)}

\* What CallStagedServices returns for stages (api_service.go:158, 162):
\* (i, errs, err) with i < len(stages), errs the list CallServices returned
\* for stages[i] and err its summary, or (len(stages), nil, nil).
StagedResults(stages) ==
    {<<k, e, m>> : k \in 0 .. (Len(stages) - 1),
                   e \in {l \in SeqsUpTo({NilErr, SvcErr}, NServices) : AnyError(l)},
                   m \in {ErrCheck, ErrRecover, ErrRun}}
    \cup {<<Len(stages), << >>, NilErr>>}

\* CallStagedServicesAndReply (api_service.go:165-168) after
\* CallStagedServices has returned.
InitGenerateStagedResponse ==
    /\ mode = "GenerateStagedResponse"
    /\ InitNoCall
    /\ \E stages \in StageLists :
           \E r \in StagedResults(stages) :
               /\ r[1] < Len(stages) => Len(r[2]) = Len(stages[r[1] + 1])
               /\ args = <<stages, r[1], r[2], r[3]>>
    /\ result = << >>

\* The call of GenerateStagedResponse (api_service.go:167).
CallGenerateStagedResponse ==
    /\ mode = "GenerateStagedResponse"
    /\ result = << >>
    /\ result' = <<GenerateStagedResponse(args[1], args[2], args[3], args[4])>>
    /\ UNCHANGED <<orchVars, args>>

NextGenerateStagedResponse == CallGenerateStagedResponse

SpecGenerateStagedResponse ==
    InitGenerateStagedResponse /\ [][NextGenerateStagedResponse]_vars

\* The services of all stages in stage order.
RECURSIVE AllServices(_, _)
AllServices(stages, s) ==
    IF s > Len(stages) THEN << >> ELSE stages[s] \o AllServices(stages, s + 1)

\* C27: for every result CallStagedServices can return,
\* GenerateStagedResponse indexes inside stages and errs; with a summary it
\* is the 500 reply of the failing stage alone, and without one it is
\* 200/"ok" with the details of all stages in stage order, each computed
\* with a nil error.
C27_GenerateStagedResponse ==
    (mode = "GenerateStagedResponse" /\ result # << >>) =>
        LET stages == args[1]
            k == args[2]
        IN  /\ result[1] # IndexOutOfRange
            /\ IF args[4] # NilErr
               THEN /\ result[1][1] = 500
                    /\ result[1][2] = args[4]
                    /\ result[1][3] =
                          SelectSeq([n \in 1 .. Len(stages[k + 1]) |->
                                        DetailOf(stages[k + 1], args[3], n)],
                                    HasDetail)
               ELSE LET all == AllServices(stages, 1)
                    IN  /\ result[1][1] = 200
                        /\ result[1][2] = "ok"
                        /\ result[1][3] =
                              SelectSeq([n \in 1 .. Len(all) |->
                                            <<all[n].name, GetResponse(all[n], NilErr)>>],
                                        HasDetail)

\* The failure reply for stage 1 of three stages: its two details are those
\* of the two services of stage 1, the second being the error of service 2.
C27_Witness ==
    /\ mode = "GenerateStagedResponse"
    /\ result # << >>
    /\ Len(args[1]) = 3
    /\ args[2] = 1
    /\ args[4] = ErrRun
    /\ Len(args[1][1]) = 2
    /\ Len(args[1][2]) = 2
    /\ args[3] = <<NilErr, SvcErr>>
    /\ Len(result[1][3]) = 2
    /\ result[1][3][2] = <<<<1, 2>>, SvcErr>>

\* --------------------------------------------------------- DryRunService
\* MakeDryRun(service) (api_service.go:72-74).
MakeDryRun(service) == [Wrapper |-> service]

\* DryRunService.Name (api_service.go:219-221), a name being the sequence of
\* its parts.
DryRunServiceName(d) == d.Wrapper.name \o <<" (dryRun)">>

\* DryRunService.GetResponse (api_service.go:238-240).
DryRunServiceGetResponse(d, err) == GetResponse(d.Wrapper, err)

\* CallServices(ctx, services, opts) on a batch of 1 .. NServices services
\* made by MakeDryRun, the context carrying no dryRun and the hooks set.
InitDryRun ==
    /\ mode = "direct"
    /\ nst = 1
    /\ size \in [Stages -> 0 .. NServices]
    /\ \A s \in Stages : IF s < nst THEN size[s] >= 1 ELSE size[s] = 0
    /\ dryRun = FALSE
    /\ recover \in BOOLEAN
    /\ skipRollback \in BOOLEAN
    /\ onActionError = TRUE
    /\ onStageStart = TRUE
    /\ reporter = TRUE
    /\ wrapped = TRUE
    /\ InitCommon

SpecDryRun == InitDryRun /\ [][Next]_vars

\* Invocations of method a on the service that service n of the batch wraps.
InnerInvoked(a, n) == inner[0][a][n]

\* C28: a service made by MakeDryRun hands Check and GetResponse to the
\* wrapped service and names itself with the suffix " (dryRun)"; its Run and
\* Rollback return nil and never invoke Run or Rollback of the wrapped
\* service, so after a full CallServices over it the wrapped service has
\* not been run.
C28_DryRunService ==
    /\ \A w \in Responders({<<"a">>, <<"a", "b">>}) :
          /\ DryRunServiceName(MakeDryRun(w)) = w.name \o <<" (dryRun)">>
          /\ \A e \in ErrValues :
                DryRunServiceGetResponse(MakeDryRun(w), e) = GetResponse(w, e)
    /\ wrapped =>
          \A n \in 1 .. size[0] :
              /\ InnerInvoked(SERVICE_CHECK, n) = Invoked(0, SERVICE_CHECK, n)
              /\ InnerInvoked(SERVICE_RUN, n) = 0
              /\ InnerInvoked(SERVICE_ROLLBACK, n) = 0
              /\ out[<<0, "RUN">>][n] \in {"none", "nil"}
              /\ out[<<0, "ROLLBACK_CS">>][n] \in {"none", "nil"}
              /\ (pc = "cs_returned" /\ out[<<0, "CHECK">>][n] # "none")
                    => out[<<0, "CHECK">>][n] \in Outcomes

\* CallServices over two dry-run services has returned success: Check of
\* each wrapped service and Run of each wrapper were invoked once, Run of
\* the wrapped services never.
C28_Witness ==
    /\ wrapped
    /\ size[0] = 2
    /\ pc = "cs_returned"
    /\ csRet = <<(<<NilErr, NilErr>>), NilErr>>
    /\ \A n \in 1 .. 2 :
          /\ Invoked(0, SERVICE_RUN, n) = 1
          /\ InnerInvoked(SERVICE_CHECK, n) = 1
          /\ InnerInvoked(SERVICE_RUN, n) = 0

\* ------------------------------------------------------ RestApiAsService
\* RestApiAction (api_rest.go:25-31).
REST_API_GET == "GET"
REST_API_POST == "POST"
REST_API_PUT == "PUT"
REST_API_DELETE == "DELETE"
REST_API_LIST == "LIST"

\* MyServiceApi.Datacenter of service n (example_as_api.go:11-13,
\* cmd/example_as_api/main.go:27-30); the service called on its own has an
\* api with the empty Datacenter, whose store is keyed by the name alone.
Datacenter(n) ==
    IF mode = "RestApiAsService" THEN ""
    ELSE IF sameDc \/ n = 1 THEN "DC1_BLUE" ELSE "DC1_RED"

\* m.Datacenter + name (example_as_api.go:16, 28, 55, 72), a name being the
\* sequence of its parts: the empty string adds no part.
Prefixed(dc, name) == IF dc = "" THEN name ELSE <<dc>> \o name

\* FakeDbRead (part_000:23-28): the claims stored under name.
FakeDbRead(d, name) == {c \in d : c.ClaimName = name}

\* FakeDbWrite (part_000:30-34).
FakeDbWrite(d, claim) == {c \in d : c.ClaimName # claim.ClaimName} \cup {claim}

\* FakeDbDelete (part_000:36-40).
FakeDbDelete(d, name) == {c \in d : c.ClaimName # name}

\* MyServiceApi.Get (example_as_api.go:15-20): the claim stored under
\* Datacenter + name, or "not found".
ApiGet(d, dc, name) ==
    LET found == FakeDbRead(d, Prefixed(dc, name))
    IN  IF found # {}
        THEN [got |-> <<CHOOSE c \in found : TRUE>>, err |-> NilErr]
        ELSE [got |-> << >>, err |-> "not found"]

\* MyServiceApi.Post (example_as_api.go:22-47), its reads and writes of the
\* store taken as one step.
ApiPost(d, a, dc, obj) ==
    IF obj = << >>
    THEN [resp |-> NilAny, err |-> "not a memory claim", db |-> d, avail |-> a]
    ELSE LET claim == [obj[1] EXCEPT !.ClaimName = Prefixed(dc, @)]
         IN  IF FakeDbRead(d, claim.ClaimName) # {}
             THEN [resp |-> NilAny, err |-> "already exists", db |-> d, avail |-> a]
             ELSE IF a - claim.MemoryInMb < 0
             THEN [resp |-> NilAny, err |-> "not enough memory available",
                   db |-> d, avail |-> a]
             ELSE [resp |-> "ok", err |-> NilErr,
                   db |-> FakeDbWrite(d, claim), avail |-> a - claim.MemoryInMb]

\* MyServiceApi.Put (example_as_api.go:49-69).
ApiPut(d, a, dc, obj) ==
    IF obj = << >>
    THEN [resp |-> NilAny, err |-> "not a memory claim", db |-> d, avail |-> a]
    ELSE LET claim == [obj[1] EXCEPT !.ClaimName = Prefixed(dc, @)]
             existing == FakeDbRead(d, claim.ClaimName)
         IN  IF existing = {}
             THEN [resp |-> NilAny, err |-> "not found", db |-> d, avail |-> a]
             ELSE LET existingClaim == CHOOSE c \in existing : TRUE
                  IN  IF a + existingClaim.MemoryInMb - claim.MemoryInMb < 0
                      THEN [resp |-> NilAny, err |-> "not enough memory available",
                            db |-> d, avail |-> a]
                      ELSE [resp |-> "ok", err |-> NilErr,
                            db |-> FakeDbWrite(d, claim),
                            avail |-> a + existingClaim.MemoryInMb - claim.MemoryInMb]

\* MyServiceApi.Delete (example_as_api.go:71-80).
ApiDelete(d, a, dc, name) ==
    LET existing == FakeDbRead(d, Prefixed(dc, name))
    IN  IF existing = {}
        THEN [resp |-> NilAny, err |-> "not found", db |-> d, avail |-> a]
        ELSE [resp |-> "ok", err |-> NilErr,
              db |-> FakeDbDelete(d, Prefixed(dc, name)),
              avail |-> a + (CHOOSE c \in existing : TRUE).MemoryInMb]

\* FakeDbList (part_000:42-50): the names of the claims stored, in the order
\* of a map iteration, taken as their set.
FakeDbList(d) == {c.ClaimName : c \in d}

\* MyServiceApi.List (example_as_api.go:82-84).
ApiList(d, a) == [resp |-> FakeDbList(d), err |-> NilErr, db |-> d, avail |-> a]

\* errors.New("cannot create " + proto.RequestName + " because it already
\* exists") (api_rest.go:116), for the request names of the model.
CannotCreate(name) ==
    IF name = << >> THEN "cannot create  because it already exists"
    ELSE "cannot create c because it already exists"

\* Mutant of CheckError: the Check of a POST service fails when Get fails.
CheckErrorInverted(action, name, get) ==
    IF action = REST_API_POST
    THEN IF get.err # NilErr THEN CannotCreate(name) ELSE NilErr
    ELSE get.err

\* What RestApiService.Check returns after backup, err := proto.Api.Get(ctx,
\* proto.RequestName) (api_rest.go:114-122).
CheckError(action, name, get) ==
    IF action = REST_API_POST
    THEN IF get.err = NilErr THEN CannotCreate(name) ELSE NilErr
    ELSE get.err

\* Mutant of CheckBackup: the payload is kept as the backup.
CheckBackupPayload(action, old, get) ==
    IF action = REST_API_POST THEN old ELSE payload

\* proto.backup after Check (api_rest.go:114-122): a POST service returns
\* before the assignment of line 121.
CheckBackup(action, old, get) ==
    IF action = REST_API_POST THEN old ELSE get.got

\* Mutant of RollbackName: the rollback of POST deletes proto.RequestName.
RollbackNameRequest == requestName

\* name := proto.RequestPayload.Name() (api_rest.go:135), MemoryClaim.Name
\* being its ClaimName.
RollbackName == payload[1].ClaimName

\* RestApiService.Check, SimpleRestApiService.Run and RestApiService.Rollback
\* (api_rest.go:107-123, 81-101, 125-146) of service n of request r on the
\* store (d, a): the call of proto.Api made, the error returned, and the
\* fields and the store afterwards.
Method(a, r, n, d, av) ==
    LET dc == Datacenter(n)
        same == [err |-> NilErr, db |-> d, avail |-> av, backup |-> backup[r][n],
                 response |-> response[r][n], call |-> << >>]
    IN  CASE a = SERVICE_CHECK /\ restAction \in {REST_API_GET, REST_API_LIST} -> same
          [] a = SERVICE_CHECK /\ restAction \notin {REST_API_GET, REST_API_LIST} ->
               LET get == ApiGet(d, dc, requestName)
               IN  [same EXCEPT
                      !.err = CheckError(restAction, requestName, get),
                      !.backup = CheckBackup(restAction, backup[r][n], get),
                      !.call = [fn |-> "Get", arg |-> requestName,
                                got |-> get.got, err |-> get.err]]
          [] a = SERVICE_RUN /\ restAction = REST_API_GET ->
               LET get == ApiGet(d, dc, requestName)
               IN  [same EXCEPT
                      !.err = get.err, !.response = get.got,
                      !.call = [fn |-> "Get", arg |-> requestName,
                                got |-> get.got, err |-> get.err]]
          [] a = SERVICE_RUN /\ restAction = REST_API_LIST ->
               LET res == ApiList(d, av)
               IN  [same EXCEPT
                      !.response = res.resp,
                      !.call = [fn |-> "List", arg |-> << >>,
                                got |-> << >>, err |-> res.err]]
          [] a = SERVICE_RUN /\ restAction \notin {REST_API_GET, REST_API_LIST} ->
               LET res == CASE restAction = REST_API_POST -> ApiPost(d, av, dc, payload)
                            [] restAction = REST_API_PUT -> ApiPut(d, av, dc, payload)
                            [] restAction = REST_API_DELETE ->
                                   ApiDelete(d, av, dc, requestName)
               IN  [same EXCEPT
                      !.err = res.err, !.db = res.db, !.avail = res.avail,
                      !.response = res.resp,
                      !.call = [fn |-> CASE restAction = REST_API_POST -> "Post"
                                         [] restAction = REST_API_PUT -> "Put"
                                         [] restAction = REST_API_DELETE -> "Delete",
                                arg |-> IF restAction = REST_API_DELETE
                                        THEN requestName ELSE payload,
                                got |-> << >>, err |-> res.err]]
          [] a = SERVICE_ROLLBACK /\ restAction \in {REST_API_GET, REST_API_LIST} -> same
          [] a = SERVICE_ROLLBACK /\ restAction \notin {REST_API_GET, REST_API_LIST} ->
               LET res == CASE restAction = REST_API_PUT ->
                                   ApiPut(d, av, dc, backup[r][n])
                            [] restAction = REST_API_POST ->
                                   ApiDelete(d, av, dc, RollbackName)
                            [] restAction = REST_API_DELETE ->
                                   ApiPost(d, av, dc, backup[r][n])
               IN  [same EXCEPT
                      !.err = res.err, !.db = res.db, !.avail = res.avail,
                      !.call = [fn |-> CASE restAction = REST_API_PUT -> "Put"
                                         [] restAction = REST_API_POST -> "Delete"
                                         [] restAction = REST_API_DELETE -> "Post",
                                arg |-> IF restAction = REST_API_POST
                                        THEN RollbackName ELSE backup[r][n],
                                got |-> << >>, err |-> res.err]]

\* The method of a RestApiService runs and returns; the sub-worker sends the
\* error on workerChan (logging.go:240-247).
RestReturn(k, n) ==
    /\ mode = "rest"
    /\ sub[k][n] = "running"
    /\ LET m == Method(ActionOf(k[2]), k[1], n, db, avail)
       IN  /\ Room(chan[k][n], <<m.err>>)
           /\ sub' = [sub EXCEPT ![k][n] = "ended"]
           /\ out' = [out EXCEPT ![k][n] = IF m.err = NilErr THEN "nil" ELSE "err"]
           /\ chan' = [chan EXCEPT ![k][n] = @ \o <<m.err>>]
           /\ db' = m.db
           /\ avail' = m.avail
           /\ backup' = [backup EXCEPT ![k[1]][n] = m.backup]
           /\ response' = [response EXCEPT ![k[1]][n] = m.response]
           /\ apiCall' = [apiCall EXCEPT ![k][n] = m.call]
    /\ UNCHANGED <<hookVars, fnVars, repVars, ctxVars, ctxDone, callerVars, bgVars>>
    /\ UNCHANGED <<restAction, requestName, payload, sameDc>>
    /\ UNCHANGED <<inst, wg, wpc, slot, writes, calls, inner>>

\* The handler has replied (cmd/example_as_api/main.go:39-42) and the next
\* request arrives: its services are made anew and CallServices starts
\* their CHECK action (main.go:26-36, api_service.go:108).
NextRequest ==
    /\ mode = "rest"
    /\ pc = "cs_returned"
    /\ i + 1 < nst
    /\ i' = i + 1
    /\ pc' = "check"
    /\ BeginAction(<<i + 1, "CHECK">>)
    /\ UNCHANGED <<hookVars, fnVars, restVars, repVars, ctxVars, ctxDone, errs, csRet,
                   stRet, bgVars>>
    /\ UNCHANGED <<writes, out, calls, inner>>

\* The stored claims of the two datacenters before the first request.
Stored == {[ClaimName |-> <<"DC1_BLUE", "c">>, MemoryInMb |-> 1],
           [ClaimName |-> <<"DC1_RED", "c">>, MemoryInMb |-> 1]}

\* Two requests to a handler that, as the handler of
\* cmd/example_as_api/main.go:26-36 does for POST, makes one service per
\* datacenter with RestApiAsService and calls CallServices with
\* context.TODO() and CallServicesOpts{}, RollbackErrorReporter being set
\* (main.go:52).  The request name is "" as in main.go or the name of the
\* claim; the payload is the claim "c" of 2 Mb.
InitRest ==
    /\ mode = "rest"
    /\ nst = 2
    /\ size \in [Stages -> 0 .. NServices]
    /\ size[0] >= 1
    /\ size[1] = size[0]
    /\ \A s \in Stages : s >= nst => size[s] = 0
    /\ dryRun = FALSE
    /\ recover = FALSE
    /\ skipRollback = FALSE
    /\ onActionError = FALSE
    /\ onStageStart = FALSE
    /\ reporter = TRUE
    /\ wrapped = FALSE
    /\ InitIdle
    /\ restAction \in {REST_API_POST, REST_API_PUT, REST_API_DELETE}
    /\ requestName \in {<< >>, <<"c">>}
    /\ payload = <<[ClaimName |-> <<"c">>, MemoryInMb |-> 2]>>
    /\ sameDc \in BOOLEAN
    /\ db \in {{}, Stored}
    /\ avail \in {1, 2, 4}
    /\ args = << >>
    /\ result = << >>

RestStep ==
    \E k \in Keys, n \in Svcs :
        \/ SubInvoke(k, n)
        \/ RestReturn(k, n)
        \/ WorkerRecv(k, n)

NextRest ==
    \/ Call
    \/ NextRequest
    \/ CheckDone
    \/ RunDone
    \/ \E s \in Stages : RollbackStart(s)
    \/ \E s \in Stages : RollbackDone(s)
    \/ \E k \in Keys : ReporterCall(k)
    \/ RestStep

SpecRest == InitRest /\ [][NextRest]_vars

\* ------------------------------------------------ RestApiAsService claims
\* The requests and the services of each.
Requests == 0 .. (nst - 1)
RestSvcs == 1 .. size[0]

\* The error the method of action k returned for service n: in workerChan
\* until the worker has taken it, in the slot afterwards.
Returned(k, n) == IF chan[k][n] # << >> THEN Head(chan[k][n]) ELSE slot[k][n]

\* C23: the Check of a POST service calls Get(RequestName) and fails with
\* "cannot create <name> because it already exists" exactly when that Get
\* succeeds, succeeding when it fails; its Rollback calls Delete with the
\* name of the payload.
C23_PostCheckRollback ==
    (mode = "rest" /\ restAction = REST_API_POST) =>
        \A r \in Requests, n \in RestSvcs :
            /\ out[<<r, "CHECK">>][n] # "none" =>
                  LET c == apiCall[<<r, "CHECK">>][n]
                  IN  /\ c.fn = "Get"
                      /\ c.arg = requestName
                      /\ c.err = NilErr =>
                            Returned(<<r, "CHECK">>, n) = CannotCreate(requestName)
                      /\ c.err # NilErr => Returned(<<r, "CHECK">>, n) = NilErr
            /\ out[<<r, "ROLLBACK_CS">>][n] # "none" =>
                  LET c == apiCall[<<r, "ROLLBACK_CS">>][n]
                  IN  /\ c.fn = "Delete"
                      /\ c.arg = payload[1].ClaimName

\* The second POST of "c" by name was refused in CHECK because Get found
\* the claim of the first request, whose failed RUN was then rolled back by
\* Delete("c").
C23_Witness ==
    /\ restAction = REST_API_POST
    /\ requestName = <<"c">>
    /\ apiCall[<<1, "CHECK">>][1] # << >>
    /\ apiCall[<<1, "CHECK">>][1].err = NilErr
    /\ slot[<<1, "CHECK">>][1] = CannotCreate(<<"c">>)
    /\ apiCall[<<0, "ROLLBACK_CS">>][1] # << >>
    /\ apiCall[<<0, "ROLLBACK_CS">>][1].fn = "Delete"
    /\ apiCall[<<0, "ROLLBACK_CS">>][1].arg = <<"c">>

\* C24: the Check of a PUT or DELETE service calls Get(RequestName),
\* succeeds exactly when it succeeds and keeps what it returned as backup;
\* Run does not change the backup; Rollback calls Put(backup) for PUT and
\* Post(backup) for DELETE with the backup of CHECK time.
C24_BackupRollback ==
    (mode = "rest" /\ restAction \in {REST_API_PUT, REST_API_DELETE}) =>
        \A r \in Requests, n \in RestSvcs :
            /\ out[<<r, "CHECK">>][n] = "none" => backup[r][n] = << >>
            /\ out[<<r, "CHECK">>][n] # "none" =>
                  LET c == apiCall[<<r, "CHECK">>][n]
                  IN  /\ c.fn = "Get"
                      /\ c.arg = requestName
                      /\ Returned(<<r, "CHECK">>, n) = c.err
                      /\ (c.err = NilErr) <=> (c.got # << >>)
                      /\ backup[r][n] = c.got
            /\ out[<<r, "ROLLBACK_CS">>][n] # "none" =>
                  LET c == apiCall[<<r, "ROLLBACK_CS">>][n]
                  IN  /\ c.fn = (IF restAction = REST_API_PUT THEN "Put" ELSE "Post")
                      /\ c.arg = apiCall[<<r, "CHECK">>][n].got

\* A PUT whose Run changed the stored claim of service 1 to 2 Mb was rolled
\* back with Put of the 1 Mb claim that Get returned at CHECK time.
C24_Witness ==
    /\ restAction = REST_API_PUT
    /\ out[<<0, "RUN">>][1] = "nil"
    /\ backup[0][1] = <<[ClaimName |-> <<"DC1_BLUE", "c">>, MemoryInMb |-> 1]>>
    /\ apiCall[<<0, "ROLLBACK_CS">>][1] # << >>
    /\ apiCall[<<0, "ROLLBACK_CS">>][1].fn = "Put"
    /\ apiCall[<<0, "ROLLBACK_CS">>][1].arg = backup[0][1]

\* The first request of the example succeeded and the second has been made.
FirstSucceeded ==
    /\ inst[<<0, "RUN">>] = "returned"
    /\ \A n \in RestSvcs : slot[<<0, "RUN">>][n] = NilErr
    /\ i = 1

\* The claims the first POST request created.
CreatedClaims ==
    {[ClaimName |-> <<Datacenter(n)>> \o payload[1].ClaimName,
      MemoryInMb |-> payload[1].MemoryInMb] : n \in RestSvcs}

\* C25: repeating the POST orchestration of the example after it succeeded
\* fails in CHECK: the summary is "one or more pre-run checks failed", no
\* Run and no Rollback is invoked, and the claims of the first call stay in
\* the store.
C25_RepeatFailsInCheck ==
    (mode = "rest" /\ restAction = REST_API_POST /\ requestName = << >>
        /\ ~sameDc /\ FirstSucceeded) =>
        /\ CreatedClaims \subseteq db
        /\ \A n \in RestSvcs :
              /\ Invoked(1, SERVICE_RUN, n) = 0
              /\ Invoked(1, SERVICE_ROLLBACK, n) = 0
        /\ pc = "cs_returned" => csRet[2] = ErrCheck

\* The repeated request of two services passed CHECK, failed in RUN with
\* "already exists", and its rollback has deleted the claims of the first.
C25_FirstClaimsDeleted ==
    /\ restAction = REST_API_POST /\ requestName = << >> /\ ~sameDc
    /\ size[0] = 2
    /\ FirstSucceeded
    /\ pc = "cs_returned"
    /\ csRet = <<(<<"already exists", "already exists">>), ErrRun>>
    /\ rb[1] = "done"
    /\ db = {}

\* ----------------------------------- a RestApiAsService service on its own
\* The names and the claims of the store.
ClaimNames == {<<"c">>, <<"d">>}
Claims == [ClaimName : ClaimNames, MemoryInMb : 1 .. MaxMemoryInMb]

\* fakeDb is a map (part_000:20): at most one claim under each name.
Stores == {d \in SUBSET Claims : \A x, y \in d : x.ClaimName = y.ClaimName => x = y}

\* The one service.
SVC == 1

\* Check, Run and Rollback of svc := RestApiAsService(&MyServiceApi{}, action,
\* apiName, name, payload) (api_rest.go:54-64) are called one after the other
\* on a store nothing else writes; args keeps the store before Check.
InitRestApiAsService ==
    /\ mode = "RestApiAsService"
    /\ nst = 1
    /\ size = [s \in Stages |-> IF s = 0 THEN 1 ELSE 0]
    /\ dryRun = FALSE
    /\ recover = FALSE
    /\ skipRollback = FALSE
    /\ onActionError = FALSE
    /\ onStageStart = FALSE
    /\ reporter = FALSE
    /\ wrapped = FALSE
    /\ ctxDone = FALSE
    /\ InitIdle
    /\ restAction \in {REST_API_GET, REST_API_POST, REST_API_PUT, REST_API_DELETE,
                       REST_API_LIST}
    /\ requestName \in {<< >>} \cup ClaimNames
    /\ payload \in {<<c>> : c \in Claims}
    /\ sameDc = TRUE
    /\ db \in Stores
    /\ avail \in 0 .. MaxMemoryInMb
    /\ args = <<db, avail>>
    /\ result = << >>

\* err := svc.Check(ctx), svc.Run(ctx) or svc.Rollback(ctx): the method
\* acts on the store and the fields of svc, and its error is kept.
CallMethod(k, from, to) ==
    /\ mode = "RestApiAsService"
    /\ pc = from
    /\ pc' = to
    /\ LET m == Method(ActionOf(k[2]), k[1], SVC, db, avail)
       IN  /\ db' = m.db
           /\ avail' = m.avail
           /\ backup' = [backup EXCEPT ![0][SVC] = m.backup]
           /\ response' = [response EXCEPT ![0][SVC] = m.response]
           /\ apiCall' = [apiCall EXCEPT ![k][SVC] = m.call]
           /\ result' = Append(result, m.err)
    /\ UNCHANGED <<hookVars, repVars, ctxVars, ctxDone, i, errs, csRet, stRet, taskVars,
                   bgVars, args>>
    /\ UNCHANGED <<restAction, requestName, payload, sameDc>>

SvcCheck == CallMethod(<<0, "CHECK">>, "init", "checked")
SvcRun == CallMethod(<<0, "RUN">>, "checked", "ran")
SvcRollback == CallMethod(<<0, "ROLLBACK_CS">>, "ran", "rolled back")

NextRestApiAsService == SvcCheck \/ SvcRun \/ SvcRollback

SpecRestApiAsService == InitRestApiAsService /\ [][NextRestApiAsService]_vars

\* The store before Check, and the errors of Check and Run.
StoreBefore == args
CheckErr == result[1]
RunErr == result[2]

\* The claim stored under name in d: << >> or <<claim>>.
ClaimAt(d, name) ==
    IF FakeDbRead(d, name) = {} THEN << >> ELSE <<CHOOSE c \in FakeDbRead(d, name) : TRUE>>

\* After Rollback the store and the budget are those before Check; for POST
\* the object of the payload is absent, for PUT and DELETE the object of
\* the request is the backup.
RoundTrip ==
    /\ <<db, avail>> = StoreBefore
    /\ restAction = REST_API_POST => ClaimAt(db, payload[1].ClaimName) = << >>
    /\ restAction \in {REST_API_PUT, REST_API_DELETE} =>
           /\ backup[0][SVC] # << >>
           /\ ClaimAt(db, requestName) = backup[0][SVC]

\* GET and LIST never change the store.
ReadOnly ==
    restAction \in {REST_API_GET, REST_API_LIST} => <<db, avail>> = StoreBefore

C34_OtherObjectKept ==
    /\ mode = "RestApiAsService"
    /\ pc = "rolled back"
    /\ restAction = REST_API_PUT
    /\ requestName = <<"c">>
    /\ payload[1].ClaimName = <<"d">>
    /\ result = <<NilErr, NilErr, NilErr>>
    /\ db # StoreBefore[1]
    /\ ClaimAt(db, <<"d">>) = payload
====
